---- MODULE Spec2Model ----
(***************************************************************************)
(* Model of the chunked CSV aggregation engine of dp_forensics_exec_reports *)
(* (src/data_processor.py, src/utils.py, src/config.py).                    *)
(*                                                                          *)
(* A chunk (polars DataFrame) is a record [columns, rows]: the set of       *)
(* column names it has and the sequence of its rows.  A row is a function   *)
(* from column names to cells.  Text cells are strings (Null for a polars   *)
(* null); numeric cells and date cells are records that keep what Python    *)
(* does with them (see the cell definitions below).                         *)
(***************************************************************************)
EXTENDS Integers, Sequences, FiniteSets, TLC

VARIABLES
    EXCLUDE_FILTERS,   \* config.EXCLUDE_FILTERS, as the sequence of its items()
    chunk,             \* the batch handed to _apply_data_filters
    filtered,          \* what _apply_data_filters returned for chunk
    refiltered,        \* what it returned for its own output
    fpc,               \* position of the filter run
    stats,             \* one accumulator (the stats dictionary of a month)
    batch,             \* the batch of the last _update_month_stats call
    file,              \* the CSV file: its header columns and its data rows
    runs,              \* the chunk size of each run of the holistic pass
    results,           \* the finalized holistic statistics of the runs done
    hpc,               \* position of process_holistic_analysis
    current_skip,      \* its current_skip
    holistic_stats,    \* its holistic_stats
    mpc,               \* position of scan_date_range and the month validation
    data_start_date,   \* self.data_start_date
    data_end_date,     \* self.data_end_date
    candidate_months,  \* the calendar-complete months of phase 1
    month_i,           \* index of the candidate month being validated
    excluded_months,   \* excluded_months of validate_complete_months
    first_valid_month_found,
    complete_months,   \* self.complete_months
    monthly_trends,    \* what process_monthly_trends returned
    sample_dates,      \* the Start Time values analyze_file_structure samples
    FORCE_DATE_FORMAT, \* config.FORCE_DATE_FORMAT
    now,               \* datetime.now(), as a day of the year
    date_format,       \* self.date_format
    dpc,               \* position of the run that detects the format
    detections,        \* the formats detected by the runs so far
    spc,               \* position of scan_date_range and of its caller
    self_chunk_size,   \* self.chunk_size of the processor that scans
    offset,            \* offset of the lazy loop
    scan_skip,         \* current_skip of the eager loop
    min_date,          \* min_date of scan_date_range
    max_date,          \* max_date of scan_date_range
    processed_rows,    \* processed_rows of scan_date_range
    total_rows,        \* self.total_rows
    handed,            \* the rows the date scan gave to _apply_data_filters, in order
    input_files,       \* the files discover_input_files returned
    file_i,            \* i of the loop of process_all_files
    bpc,               \* position of process_all_files and process_single_file
    result,            \* results of process_single_file for the current file
    batch_results,     \* results of process_all_files
    successful_count,  \* successful_count of process_all_files
    failed_count,      \* failed_count of process_all_files
    summary            \* what process_all_files returns

filterVars == <<chunk, filtered, refiltered, fpc>>
accVars == <<stats, batch>>
holVars == <<file, runs, results, hpc, current_skip, holistic_stats>>
monthVars == <<mpc, data_start_date, data_end_date, candidate_months, month_i,
               excluded_months, first_valid_month_found, complete_months,
               monthly_trends>>
detectVars == <<sample_dates, FORCE_DATE_FORMAT, now, date_format, dpc, detections>>
scanVars == <<spc, self_chunk_size, offset, scan_skip, min_date, max_date,
              processed_rows, total_rows, handed>>
batchVars == <<input_files, file_i, bpc, result, batch_results, successful_count,
               failed_count, summary>>
vars == <<EXCLUDE_FILTERS, chunk, filtered, refiltered, fpc, stats, batch,
          file, runs, results, hpc, current_skip, holistic_stats,
          mpc, data_start_date, data_end_date, candidate_months, month_i,
          excluded_months, first_valid_month_found, complete_months,
          monthly_trends, sample_dates, FORCE_DATE_FORMAT, now, date_format, dpc,
          detections, spc, self_chunk_size, offset, scan_skip, min_date, max_date,
          processed_rows, total_rows, handed, input_files, file_i, bpc, result, batch_results,
          successful_count, failed_count, summary>>

(***************************************************************************)
(* Cells                                                                    *)
(***************************************************************************)
Null == "<null>"

\* A numeric column read by polars: a number, a null, a token that is not a
\* number ("abc", "N/A") or a token made of digits and dots that float()
\* rejects ("1.2.3").
NumCell(n) == [kind |-> "num", v |-> n]
NullCell == [kind |-> "null", v |-> 0]
TextCell == [kind |-> "text", v |-> 0]
DottedCell == [kind |-> "dotted", v |-> 0]

Columns ==
    {"Start Time", "End Time", "Source IP Address", "Destination IP Address",
     "Attack Name", "Threat Category", "Protocol", "Action", "Device Name",
     "Policy Name", "Risk", "Direction", "Total Packets", "Total Mbits",
     "Max pps", "Max bps", "Duration"}

BaseRow ==
    [c \in Columns |->
        CASE c \in {"Total Packets", "Total Mbits", "Max pps", "Max bps", "Duration"}
               -> NullCell
          [] c \in {"Start Time", "End Time"} -> [kind |-> "null", v |-> 0]
          [] OTHER -> Null]

EmptyChunk == [columns |-> {}, rows |-> <<>>]

(***************************************************************************)
(* Row filter: ForensicsDataProcessor._apply_data_filters                   *)
(***************************************************************************)
\* polars: chunk.filter(~pl.col(column_name).is_in(excluded_values)).
\* is_in of a null is null, its negation is null, and filter keeps only the
\* rows whose predicate is true: a row with a null in the column goes too.
FilterNotIn(rows, column_name, excluded_values) ==
    SelectSeq(rows, LAMBDA row :
        row[column_name] # Null /\ row[column_name] \notin excluded_values)

RECURSIVE ApplyFiltersFrom(_, _, _)
ApplyFiltersFrom(c, filters, i) ==
    IF i > Len(filters) THEN c
    ELSE LET column_name == filters[i][1]
             excluded_values == filters[i][2]
         IN IF column_name \in c.columns /\ excluded_values # {}
            THEN ApplyFiltersFrom(
                     [c EXCEPT !.rows = FilterNotIn(c.rows, column_name, excluded_values)],
                     filters, i + 1)
            ELSE ApplyFiltersFrom(c, filters, i + 1)

\* Mutant: the loop returns after its first rule.
ApplyDataFilters_FirstRuleOnly(c, filters) ==
    ApplyFiltersFrom(c, IF Len(filters) = 0 THEN filters ELSE <<filters[1]>>, 1)

ApplyDataFilters(c, filters) == ApplyFiltersFrom(c, filters, 1)

(***************************************************************************)
(* Python values                                                            *)
(***************************************************************************)
None == <<>>
Some(x) == <<x>>

\* `x and str(x) != 'nan'` on a text cell
IsPresent(v) == v \notin {Null, "", "nan"}

EmptyDict == [k \in {} |-> 0]
Get(d, k, default) == IF k \in DOMAIN d THEN d[k] ELSE default
Put(d, k, v) == [x \in DOMAIN d \cup {k} |-> IF x = k THEN v ELSE d[x]]

RECURSIVE SumSeq(_)
SumSeq(q) == IF q = <<>> THEN 0 ELSE Head(q) + SumSeq(Tail(q))

MaxOf(S) == CHOOSE x \in S : \A y \in S : y <= x
MinOf(S) == CHOOSE x \in S : \A y \in S : x <= y

(***************************************************************************)
(* Dates.  A datetime is a number of ticks; a tick stands for the smallest  *)
(* step of time (timedelta(seconds=1)) and a day has HoursPerDay of them.   *)
(* A date cell says how the string parses: "fmt" with the detected format,  *)
(* "flex" only with one of the fallbacks of parse_date_flexible, "bad" not  *)
(* at all, "null" for an empty cell.                                        *)
(***************************************************************************)
HoursPerDay == 24
MonthsPerYear == 12
DaysPerMonth == 2      \* days of a model month

DateCell(kind, t) == [kind |-> kind, v |-> t]
NullDate == DateCell("null", 0)

TicksPerMonth == DaysPerMonth * HoursPerDay
Hour(t) == t % HoursPerDay

\* utils.parse_date_flexible(date_str, detected_format)
ParseDateFlexible(cell) ==
    IF cell.kind \in {"fmt", "flex"} THEN Some(cell.v) ELSE None

(***************************************************************************)
(* Statistics accumulator: ForensicsDataProcessor._update_month_stats       *)
(***************************************************************************)
\* the stats dictionary built at the top of _process_month_data
NewMonthStats ==
    [total_events |-> 0,
     unique_source_ips |-> {},
     unique_dest_ips |-> {},
     attack_types |-> EmptyDict,
     protocols |-> EmptyDict,
     actions |-> EmptyDict,
     max_pps |-> 0,
     max_bps |-> 0,
     max_pps_details |-> None,
     max_bps_details |-> None,
     total_packets |-> 0,
     total_mbits |-> 0,
     devices |-> EmptyDict,
     policies |-> EmptyDict,
     hourly_distribution |-> [h \in 0..(HoursPerDay - 1) |-> 0]]

ColumnValues(c, col) == [i \in 1..Len(c.rows) |-> c.rows[i][col]]

PresentValues(c, col) ==
    {c.rows[i][col] : i \in {k \in 1..Len(c.rows) : IsPresent(c.rows[k][col])}}

\* for v in chunk[col].to_list(): if v and str(v) != 'nan': d[v] = d.get(v, 0) + 1
CountValues(d, c, col) ==
    IF col \notin c.columns THEN d
    ELSE [k \in DOMAIN d \cup PresentValues(c, col) |->
            Get(d, k, 0) + Cardinality({i \in 1..Len(c.rows) : c.rows[i][col] = k})]

\* lines 650-668: attack names with their threat category, row by row
RECURSIVE UpdateAttackTypes(_, _, _)
UpdateAttackTypes(d, c, i) ==
    IF i > Len(c.rows) \/ "Attack Name" \notin c.columns THEN d
    ELSE LET attack == c.rows[i]["Attack Name"]
             old == Get(d, attack, [count |-> 0, threat_category |-> "N/A"]).count
         IN IF "Threat Category" \in c.columns
            THEN LET threat_cat == c.rows[i]["Threat Category"]
                 IN IF IsPresent(attack) /\ IsPresent(threat_cat)
                    THEN UpdateAttackTypes(
                             Put(d, attack, [count |-> old + 1, threat_category |-> threat_cat]),
                             c, i + 1)
                    ELSE UpdateAttackTypes(d, c, i + 1)
            ELSE IF IsPresent(attack)
                 THEN UpdateAttackTypes(
                          Put(d, attack, [count |-> old + 1, threat_category |-> "N/A"]),
                          c, i + 1)
                 ELSE UpdateAttackTypes(d, c, i + 1)

\* _extract_attack_details_from_row(chunk, row_index)
ExtractAttackDetailsFromRow(c, row_index) ==
    [details |-> [col \in c.columns |-> c.rows[row_index][col]]]

\* the test of line 696: v and str(v) != 'nan' and str(v).replace('.', '').isdigit()
LooksNumeric(cell) == cell.kind \in {"num", "dotted"}
\* float(v) raises ValueError
FloatRaises(cell) == cell.kind \in {"dotted", "text"}

NumericColumns ==
    <<<<"Total Packets", "total_packets">>, <<"Total Mbits", "total_mbits">>,
      <<"Max pps", "max_pps">>, <<"Max bps", "max_bps">>>>

\* Mutant: the maximum is stored without comparing it with the stored one.
StoreMax_NoCompare(st, c, col_name, stat_key, values, current_max) ==
    [st EXCEPT ![stat_key] = current_max]

\* lines 702-721: the branch of a max_ statistic.  The search for the row of
\* the maximum calls float() on every non-null value before it, inside its
\* own try: a value that is not a number ends the search (continue) after
\* the maximum has been stored and before the details are.
StoreMax(st, c, col_name, stat_key, values, current_max) ==
    IF current_max > st[stat_key]
    THEN LET max_index == MinOf({i \in 1..Len(values) :
                                   values[i].kind = "num" /\ values[i].v = current_max})
             raised == \E j \in 1..(max_index - 1) : values[j].kind = "text"
             details_key == IF stat_key = "max_pps" THEN "max_pps_details"
                            ELSE "max_bps_details"
         IN IF raised
            THEN [st EXCEPT ![stat_key] = current_max]
            ELSE [st EXCEPT ![stat_key] = current_max,
                            ![details_key] = Some(ExtractAttackDetailsFromRow(c, max_index))]
    ELSE st

\* lines 694-721: one turn of the loop over numeric_columns.  The list
\* comprehension of line 696 is outside the inner try: a value of digits and
\* dots that float() rejects raises out of the whole update.
NumericStep(st, c, col_name, stat_key) ==
    IF col_name \notin c.columns THEN [stats |-> st, raised |-> FALSE]
    ELSE LET values == ColumnValues(c, col_name)
             idx == {i \in 1..Len(values) : LooksNumeric(values[i])}
         IN IF \E i \in idx : FloatRaises(values[i])
            THEN [stats |-> st, raised |-> TRUE]
            ELSE IF idx = {} THEN [stats |-> st, raised |-> FALSE]
            ELSE IF stat_key \in {"total_packets", "total_mbits"}
                 THEN [stats |-> [st EXCEPT ![stat_key] =
                                     @ + SumSeq([i \in 1..Len(values) |->
                                                   IF i \in idx THEN values[i].v ELSE 0])],
                       raised |-> FALSE]
                 ELSE [stats |-> StoreMax(st, c, col_name, stat_key, values,
                                          MaxOf({values[i].v : i \in idx})),
                       raised |-> FALSE]

RECURSIVE NumericLoop(_, _, _)
NumericLoop(st, c, k) ==
    IF k > Len(NumericColumns) THEN [stats |-> st, raised |-> FALSE]
    ELSE LET step == NumericStep(st, c, NumericColumns[k][1], NumericColumns[k][2])
         IN IF step.raised THEN step ELSE NumericLoop(step.stats, c, k + 1)

\* lines 723-729
UpdateHourly(hist, c) ==
    IF "Start Time" \notin c.columns THEN hist
    ELSE [h \in DOMAIN hist |->
            hist[h] + Cardinality({i \in 1..Len(c.rows) :
                LET parsed_date == ParseDateFlexible(c.rows[i]["Start Time"])
                IN parsed_date # None /\ Hour(parsed_date[1]) = h})]

\* _update_month_stats(stats, chunk).  The body is one try block: what was
\* done before an exception stays done, the rest of the update is skipped.
UpdateMonthStats(st, c) ==
    LET s1 == [st EXCEPT
                 !.total_events = @ + Len(c.rows),
                 !.unique_source_ips =
                     IF "Source IP Address" \in c.columns
                     THEN @ \cup PresentValues(c, "Source IP Address") ELSE @,
                 !.unique_dest_ips =
                     IF "Destination IP Address" \in c.columns
                     THEN @ \cup PresentValues(c, "Destination IP Address") ELSE @,
                 !.attack_types = UpdateAttackTypes(@, c, 1),
                 !.protocols = CountValues(@, c, "Protocol"),
                 !.actions = CountValues(@, c, "Action")]
        numeric == NumericLoop(s1, c, 1)
    IN IF numeric.raised THEN numeric.stats
       ELSE [numeric.stats EXCEPT
               !.hourly_distribution = UpdateHourly(@, c),
               !.devices = CountValues(@, c, "Device Name"),
               !.policies = CountValues(@, c, "Policy Name")]

(***************************************************************************)
(* Holistic statistics: ForensicsDataProcessor._update_holistic_stats       *)
(***************************************************************************)
\* the holistic_stats dictionary built at the top of process_holistic_analysis
NewHolisticStats ==
    [total_events |-> 0,
     unique_source_ips |-> {},
     unique_dest_ips |-> {},
     attack_types |-> EmptyDict,
     protocols |-> EmptyDict,
     actions |-> EmptyDict,
     risk_levels |-> EmptyDict,
     devices |-> EmptyDict,
     policies |-> EmptyDict,
     hourly_distribution |-> [h \in 0..(HoursPerDay - 1) |-> 0],
     daily_distribution |-> EmptyDict,
     total_packets |-> 0,
     total_mbits |-> 0,
     max_pps |-> 0,
     max_bps |-> 0,
     max_pps_details |-> None,
     max_bps_details |-> None,
     duration_stats |-> <<>>,
     longest_attack_details |-> None,
     top_source_ips |-> <<>>,
     top_dest_ips |-> <<>>]

\* strftime('%Y-%m-%d'): the day a datetime falls on
DayKey(t) == t \div HoursPerDay

\* lines 911-917
UpdateDaily(d, c) ==
    IF "Start Time" \notin c.columns THEN d
    ELSE LET days == {DayKey(ParseDateFlexible(c.rows[i]["Start Time"])[1]) :
                         i \in {k \in 1..Len(c.rows) :
                                  ParseDateFlexible(c.rows[k]["Start Time"]) # None}}
         IN [k \in DOMAIN d \cup days |->
                Get(d, k, 0) + Cardinality({i \in 1..Len(c.rows) :
                    LET parsed_date == ParseDateFlexible(c.rows[i]["Start Time"])
                    IN parsed_date # None /\ DayKey(parsed_date[1]) = k})]

\* Mutant: a row of the same duration replaces the one held.
RECURSIVE UpdateDuration_TiesReplace(_, _, _)
UpdateDuration_TiesReplace(st, c, i) ==
    IF "Duration" \notin c.columns \/ i > Len(c.rows) THEN [stats |-> st, raised |-> FALSE]
    ELSE LET duration_str == c.rows[i]["Duration"]
         IN IF ~LooksNumeric(duration_str) THEN UpdateDuration_TiesReplace(st, c, i + 1)
            ELSE IF FloatRaises(duration_str) THEN [stats |-> st, raised |-> TRUE]
            ELSE LET duration == duration_str.v
                     current_longest ==
                         IF st.longest_attack_details # None
                         THEN st.longest_attack_details[1].duration ELSE 0
                     appended == [st EXCEPT !.duration_stats = Append(@, duration)]
                 IN IF duration >= current_longest
                    THEN UpdateDuration_TiesReplace(
                             [appended EXCEPT !.longest_attack_details =
                                 Some([duration |-> duration,
                                       details |-> [col \in c.columns |-> c.rows[i][col]]])],
                             c, i + 1)
                    ELSE UpdateDuration_TiesReplace(appended, c, i + 1)

\* lines 925-949, row by row; float() of a value of digits and dots that is
\* no number raises out of the loop and of the rest of the update.
RECURSIVE UpdateDuration(_, _, _)
UpdateDuration(st, c, i) ==
    IF "Duration" \notin c.columns \/ i > Len(c.rows) THEN [stats |-> st, raised |-> FALSE]
    ELSE LET duration_str == c.rows[i]["Duration"]
         IN IF ~LooksNumeric(duration_str) THEN UpdateDuration(st, c, i + 1)
            ELSE IF FloatRaises(duration_str) THEN [stats |-> st, raised |-> TRUE]
            ELSE LET duration == duration_str.v
                     current_longest ==
                         IF st.longest_attack_details # None
                         THEN st.longest_attack_details[1].duration ELSE 0
                     appended == [st EXCEPT !.duration_stats = Append(@, duration)]
                 IN IF duration > current_longest
                    THEN UpdateDuration(
                             [appended EXCEPT !.longest_attack_details =
                                 Some([duration |-> duration,
                                       details |-> [col \in c.columns |-> c.rows[i][col]]])],
                             c, i + 1)
                    ELSE UpdateDuration(appended, c, i + 1)

\* lines 951-960: stats['top_source_ips'][ip] = stats['top_source_ips'].get(ip, 0) + 1,
\* row by row.  The dictionary keeps its keys in the order of their first
\* insertion: it is the sequence of its items.
RECURSIVE CountInOrder(_, _, _, _)
CountInOrder(items, c, col, i) ==
    IF col \notin c.columns \/ i > Len(c.rows) THEN items
    ELSE LET ip == c.rows[i][col]
             at == {j \in 1..Len(items) : items[j].key = ip}
         IN IF ~IsPresent(ip) THEN CountInOrder(items, c, col, i + 1)
            ELSE IF at = {}
            THEN CountInOrder(Append(items, [key |-> ip, count |-> 1]), c, col, i + 1)
            ELSE CountInOrder([items EXCEPT ![MinOf(at)].count = @ + 1], c, col, i + 1)

\* _update_holistic_stats(stats, chunk)
UpdateHolisticStats(st, c) ==
    LET s1 == UpdateMonthStats(st, c)
        s2 == [s1 EXCEPT !.daily_distribution = UpdateDaily(@, c),
                         !.risk_levels = CountValues(@, c, "Risk")]
        dur == UpdateDuration(s2, c, 1)
    IN IF dur.raised THEN dur.stats
       ELSE [dur.stats EXCEPT
               !.top_source_ips = CountInOrder(@, c, "Source IP Address", 1),
               !.top_dest_ips = CountInOrder(@, c, "Destination IP Address", 1)]

(***************************************************************************)
(* Chunk reader: pl.read_csv(path, skip_rows=current_skip, n_rows=n)        *)
(***************************************************************************)
\* The file is its header line followed by its data rows.  read_csv skips
\* skip_rows lines and, has_header being left at its default, takes the next
\* line as the header of the chunk; the n_rows lines after it are the data.
\* The caller then renames the columns to those of the real header.  A read
\* that finds no line left raises; the caller's except ends the loop as an
\* empty chunk does.
ReadCsv(f, skip_rows, n_rows) ==
    LET first == skip_rows + 1
        last == IF skip_rows + n_rows < Len(f.rows) THEN skip_rows + n_rows ELSE Len(f.rows)
    IN [columns |-> f.columns, rows |-> SubSeq(f.rows, first, last)]

(***************************************************************************)
(* Calendar months: utils.get_complete_months, phase 1                      *)
(***************************************************************************)
\* datetime(year, month, day), at midnight
Datetime(year, month, day) ==
    ((year * MonthsPerYear + (month - 1)) * DaysPerMonth + (day - 1)) * HoursPerDay

Year(t) == t \div (MonthsPerYear * TicksPerMonth)
Month(t) == ((t \div TicksPerMonth) % MonthsPerYear) + 1
Day(t) == ((t \div HoursPerDay) % DaysPerMonth) + 1

\* the first day of the month after the one t falls in (lines 355-358, 362-365, 372-375)
NextMonthStart(t) ==
    IF Month(t) = MonthsPerYear THEN Datetime(Year(t) + 1, 1, 1)
    ELSE Datetime(Year(t), Month(t) + 1, 1)

\* lines 350-358
FirstCompleteMonth(start_date) ==
    IF Day(start_date) = 1 THEN start_date ELSE NextMonthStart(start_date)

\* lines 360-377: the while loop
RECURSIVE CompleteMonthsFrom(_, _)
CompleteMonthsFrom(current_month, end_date) ==
    IF current_month <= end_date
    THEN LET month_end == NextMonthStart(current_month) - 1
         IN IF month_end <= end_date
            THEN <<<<current_month, month_end>>>>
                    \o CompleteMonthsFrom(NextMonthStart(current_month), end_date)
            ELSE <<>>
    ELSE <<>>

CalendarCompleteMonths(start_date, end_date) ==
    CompleteMonthsFrom(FirstCompleteMonth(start_date), end_date)

(***************************************************************************)
(* Month validation: utils.validate_complete_months                         *)
(***************************************************************************)
\* pl.col(...).str.strptime(pl.Datetime, date_format, strict=False): null
\* unless the string is in the detected format
Strptime(cell) == IF cell.kind = "fmt" THEN Some(cell.v) ELSE None

\* lines 457-469: the rows whose two dates parse and which overlap the month
MonthAttacks(f, month_start, month_end) ==
    SelectSeq(f.rows, LAMBDA row :
        LET start_parsed == Strptime(row["Start Time"])
            end_parsed == Strptime(row["End Time"])
        IN /\ start_parsed # None
           /\ end_parsed # None
           /\ start_parsed[1] <= month_end
           /\ end_parsed[1] >= month_start)

\* Mutant: only the start of an attack is compared with the month.
FullyContained_StartOnly(attacks, month_start, month_end) ==
    SelectSeq(attacks, LAMBDA row :
        /\ Strptime(row["Start Time"])[1] >= month_start
        /\ Strptime(row["Start Time"])[1] <= month_end)

\* lines 477-480
FullyContained(attacks, month_start, month_end) ==
    SelectSeq(attacks, LAMBDA row :
        /\ Strptime(row["Start Time"])[1] >= month_start
        /\ Strptime(row["End Time"])[1] <= month_end)

\* Mutant: the excluded months are not taken out of the list.
RemoveExcluded_Nothing(validated_months, excluded) == validated_months

\* lines 497-500
RemoveExcluded(validated_months, excluded) ==
    SelectSeq(validated_months, LAMBDA m : \A k \in 1..Len(excluded) : excluded[k] # m)

\* lines 286-330, the lazy scan: the parsed start times of the rows that
\* survive the exclusion filters
ScannedDates(f, filters) ==
    LET kept == ApplyDataFilters(f, filters).rows
    IN {ParseDateFlexible(kept[i]["Start Time"])[1] :
           i \in {k \in 1..Len(kept) : ParseDateFlexible(kept[k]["Start Time"]) # None}}

(***************************************************************************)
(* Monthly pass: process_monthly_trends and _process_month_data             *)
(***************************************************************************)
CHUNK_SIZE == 50000

\* _filter_chunk_by_date(chunk, start_date, end_date): the rows whose start
\* time parses (with the detected format or a fallback) into the range
FilterChunkByDate(c, start_date, end_date) ==
    IF "Start Time" \notin c.columns THEN [c EXCEPT !.rows = <<>>]
    ELSE [c EXCEPT !.rows = SelectSeq(c.rows, LAMBDA row :
             LET parsed_date == ParseDateFlexible(row["Start Time"])
             IN /\ parsed_date # None
                /\ parsed_date[1] >= start_date
                /\ parsed_date[1] <= end_date)]

\* lines 526-571: the while loop of _process_month_data
RECURSIVE MonthLoop(_, _, _, _, _, _, _)
MonthLoop(st, f, filters, n, skip, month_start, month_end) ==
    LET read == ReadCsv(f, skip, n)
        original_chunk_size == Len(read.rows)
        month_chunk == FilterChunkByDate(ApplyDataFilters(read, filters),
                                         month_start, month_end)
        updated == IF Len(month_chunk.rows) = 0 THEN st
                   ELSE UpdateMonthStats(st, month_chunk)
    IN IF original_chunk_size = 0 THEN st
       ELSE IF original_chunk_size < n THEN updated
       ELSE MonthLoop(updated, f, filters, n, skip + original_chunk_size,
                      month_start, month_end)

\* lines 576-578: the sets of unique IPs become their sizes
FinalizeMonth(st) ==
    [st EXCEPT !.unique_source_ips = Cardinality(@),
               !.unique_dest_ips = Cardinality(@)]

\* _process_month_data(month_start, month_end)
ProcessMonthData(f, filters, n, month_start, month_end) ==
    IF "Start Time" \notin f.columns THEN NewMonthStats
    ELSE FinalizeMonth(MonthLoop(NewMonthStats, f, filters, n, 1, month_start, month_end))

\* month_start.strftime('%Y-%m')
MonthKey(t) == <<Year(t), Month(t)>>

\* Mutant: the monthly passes are run without looking at the list of months.
ProcessMonthlyTrends_NoGuard(f, filters, n, months) ==
    [has_trends |-> TRUE,
     reason |-> "",
     months |-> [k \in {MonthKey(months[i][1]) : i \in 1..Len(months)} |->
                   NewMonthStats]]

\* Mutant: one statistics dictionary is created before the loop over the
\* months, updated by every month and stored under every key.
RECURSIVE SharedStatsAfter(_, _, _, _, _)
SharedStatsAfter(f, filters, n, months, i) ==
    IF i = 0 THEN NewMonthStats
    ELSE MonthLoop(SharedStatsAfter(f, filters, n, months, i - 1), f, filters, n, 1,
                   months[i][1], months[i][2])

ProcessMonthlyTrends_SharedStats(f, filters, n, months) ==
    IF months = <<>>
    THEN [has_trends |-> FALSE,
          reason |-> "Insufficient data for trend analysis",
          months |-> EmptyDict]
    ELSE [has_trends |-> TRUE,
          reason |-> "",
          months |-> [k \in {MonthKey(months[i][1]) : i \in 1..Len(months)} |->
                        FinalizeMonth(SharedStatsAfter(f, filters, n, months, Len(months)))]]

\* process_monthly_trends()
ProcessMonthlyTrends(f, filters, n, months) ==
    IF months = <<>>
    THEN [has_trends |-> FALSE,
          reason |-> "Insufficient data for trend analysis",
          months |-> EmptyDict]
    ELSE [has_trends |-> TRUE,
          reason |-> "",
          months |-> [k \in {MonthKey(months[i][1]) : i \in 1..Len(months)} |->
                        LET i == MaxOf({j \in 1..Len(months) : MonthKey(months[j][1]) = k})
                        IN ProcessMonthData(f, filters, n, months[i][1], months[i][2])]]

NoTrends == [has_trends |-> FALSE, reason |-> "", months |-> EmptyDict]

(***************************************************************************)
(* Date format resolver: utils.detect_date_format                           *)
(*                                                                          *)
(* The sample list is kept as a sequence of runs [kind, n]: n strings of    *)
(* one kind, pairwise different (they differ in their seconds) and of one   *)
(* calendar day.  The kinds are                                             *)
(*   "amb"    01.02.2024 10:00:00   parses day-first and month-first        *)
(*   "dd"     13.02.2024 10:00:00   first component above 12                *)
(*   "mm"     02.13.2024 10:00:00   second component above 12               *)
(*   "iso"    2024-02-13 10:00:00   no dots, parses with neither            *)
(*   "short"  1.2.24                eight characters or fewer               *)
(*   "empty"  a null or a blank string                                      *)
(* A random.sample is the set of the count vectors it can draw.             *)
(***************************************************************************)
DayFirst == "%d.%m.%Y %H:%M:%S"
MonthFirst == "%m.%d.%Y %H:%M:%S"
IsoFormat == "%Y-%m-%d %H:%M:%S"

\* config.DATE_FORMATS
DATE_FORMATS == <<DayFirst, MonthFirst>>

\* datetime.strptime(date_str, fmt) does not raise
Parses(kind, fmt) ==
    \/ fmt = DayFirst /\ kind \in {"amb", "dd"}
    \/ fmt = MonthFirst /\ kind \in {"amb", "mm"}
    \/ fmt = IsoFormat /\ kind = "iso"

\* the day of the year datetime.strptime gives: 01.02 is the 1st of February
\* day-first and the 2nd of January month-first
ParsedDay(kind, fmt) ==
    IF kind = "amb" THEN (IF fmt = DayFirst THEN 32 ELSE 2) ELSE 44

Min2(a, b) == IF a <= b THEN a ELSE b
Max2(a, b) == IF a >= b THEN a ELSE b

RECURSIVE TotalOf(_)
TotalOf(counts) == IF counts = <<>> THEN 0 ELSE Head(counts) + TotalOf(Tail(counts))

Lengths(run_list) == [i \in 1..Len(run_list) |-> run_list[i].n]

\* the number of strings of the given kinds among the drawn ones
CountKinds(run_list, counts, kinds) ==
    TotalOf([i \in 1..Len(run_list) |->
                IF run_list[i].kind \in kinds THEN counts[i] ELSE 0])

\* samples[:k], as the number of strings taken of each run
RECURSIVE PrefixCounts(_, _)
PrefixCounts(lengths, k) ==
    IF lengths = <<>> THEN <<>>
    ELSE <<Min2(Head(lengths), k)>>
            \o PrefixCounts(Tail(lengths), k - Min2(Head(lengths), k))

\* random.sample(population, k): every way to draw k of the strings
RECURSIVE SubBags(_, _)
SubBags(lengths, k) ==
    IF lengths = <<>> THEN (IF k = 0 THEN {<<>>} ELSE {})
    ELSE LET rest == TotalOf(Tail(lengths))
         IN UNION {{<<c>> \o t : t \in SubBags(Tail(lengths), k - c)} :
                      c \in Max2(0, k - rest)..Min2(Head(lengths), k)}

\* Mutant: half of the tested values are enough.
ForcedAccepted_AtLeastHalf(samples, forced) ==
    LET first10 == PrefixCounts(Lengths(samples), 10)
        test_count == CountKinds(samples, first10, {"amb", "dd", "mm", "iso", "short"})
        success_count == TotalOf([i \in 1..Len(samples) |->
                             IF Parses(samples[i].kind, forced) THEN first10[i] ELSE 0])
    IN test_count > 0 /\ 2 * success_count >= test_count

\* lines 143-161: the forced format is accepted
ForcedAccepted(samples, forced) ==
    LET first10 == PrefixCounts(Lengths(samples), 10)
        test_count == CountKinds(samples, first10, {"amb", "dd", "mm", "iso", "short"})
        success_count == TotalOf([i \in 1..Len(samples) |->
                             IF Parses(samples[i].kind, forced) THEN first10[i] ELSE 0])
    IN test_count > 0 /\ 2 * success_count > test_count

\* lines 163-169: the strings longer than 8 characters
AllValidSamples(samples) ==
    SelectSeq(samples, LAMBDA r : r.kind \in {"amb", "dd", "mm", "iso"})

\* _find_unambiguous_evidence(samples) followed by max(..., key=votes): the
\* formats that can come out, none without evidence.  Of two formats with as
\* many votes max takes the one whose evidence was met first: the first in
\* the list when the samples are in file order, either for a random sample.
BestEvidence(run_list, counts, in_file_order) ==
    LET dd == CountKinds(run_list, counts, {"dd"})
        mm == CountKinds(run_list, counts, {"mm"})
        first == MinOf({i \in 1..Len(run_list) :
                           counts[i] > 0 /\ run_list[i].kind \in {"dd", "mm"}})
    IN IF dd = 0 /\ mm = 0 THEN {}
       ELSE IF dd > mm THEN {DayFirst}
       ELSE IF mm > dd THEN {MonthFirst}
       ELSE IF in_file_order
            THEN {IF run_list[first].kind = "dd" THEN DayFirst ELSE MonthFirst}
       ELSE {DayFirst, MonthFirst}

\* timedelta(days=30) of the future-date test
FutureDays == 30

\* lines 266-324 of _detect_format_from_samples, on test samples without
\* unambiguous evidence: twice the combined score times len(test_samples).
\* The parsed dates are of one day, so chronology_score is 1.
CombinedScore(run_list, test, fmt, current_date) ==
    LET successes == TotalOf([i \in 1..Len(run_list) |->
                         IF Parses(run_list[i].kind, fmt) THEN test[i] ELSE 0])
        future_penalty == IF successes > 0 /\ ParsedDay("amb", fmt) > current_date + FutureDays
                          THEN 1 ELSE 0
    IN successes * (2 - future_penalty)

\* _detect_format_from_samples(valid_samples) past its evidence check
ScoredFormat(run_list, test, current_date) ==
    LET score == [i \in 1..Len(DATE_FORMATS) |->
                     CombinedScore(run_list, test, DATE_FORMATS[i], current_date)]
        best == MinOf({i \in 1..Len(DATE_FORMATS) :
                          \A j \in 1..Len(DATE_FORMATS) : score[j] <= score[i]})
    IN IF 10 * score[best] > 7 * 2 * TotalOf(test)    \* combined_score > 0.7
       THEN DATE_FORMATS[best]
       ELSE DATE_FORMATS[1]

SmallDataset == 500
SampleStep == 300
MaxSamples == 1000
ParsingSamples == 200
TestSamples == 100

\* lines 200-218: the loop of detect_date_format over a random sample
\* `working` whose first strings are the sample `initial` first drawn
RECURSIVE Progressive(_, _, _, _, _)
Progressive(run_list, initial, working, iteration, current_date) ==
    LET total_samples == TotalOf(Lengths(run_list))
        max_samples == Min2(MaxSamples, total_samples)
        evidence == BestEvidence(run_list, working, FALSE)
        additional_size == Min2(SampleStep, max_samples - TotalOf(working))
        remaining == [i \in 1..Len(run_list) |-> run_list[i].n - working[i]]
    IN IF evidence # {} THEN evidence
       ELSE IF /\ TotalOf(working) < max_samples
               /\ iteration < 2
               /\ TotalOf(remaining) > 0
               /\ additional_size > 0
            THEN UNION {Progressive(run_list, initial,
                                    [i \in 1..Len(run_list) |-> working[i] + new[i]],
                                    iteration + 1, current_date) :
                           new \in SubBags(remaining,
                                           Min2(additional_size, TotalOf(remaining)))}
            ELSE {ScoredFormat(run_list, test, current_date) :
                     test \in SubBags(initial, Min2(TestSamples, TotalOf(initial)))}

\* random.sample does not look at the place of a string in the list: for
\* the draws the list is as good as one run per kind
SampledKinds == <<"amb", "dd", "mm", "iso">>
KindTotals(run_list) ==
    SelectSeq([k \in 1..Len(SampledKinds) |->
                  [kind |-> SampledKinds[k],
                   n |-> CountKinds(run_list, Lengths(run_list), {SampledKinds[k]})]],
              LAMBDA r : r.n > 0)

\* lines 163-226: auto-detection; the formats it can return (None: no sample)
AutoDetect(samples, current_date) ==
    LET all_valid_samples == AllValidSamples(samples)
        lengths == Lengths(all_valid_samples)
        total_samples == TotalOf(lengths)
        population == KindTotals(all_valid_samples)
    IN IF total_samples = 0 THEN {None}
       ELSE IF total_samples <= SmallDataset
            THEN LET evidence == BestEvidence(all_valid_samples, lengths, TRUE)
                     valid_samples == PrefixCounts(lengths, ParsingSamples)
                     test == PrefixCounts(valid_samples, TestSamples)
                 IN IF evidence # {} THEN {Some(fmt) : fmt \in evidence}
                    ELSE {Some(ScoredFormat(all_valid_samples, test, current_date))}
       ELSE {Some(fmt) : fmt \in
                UNION {Progressive(population, initial, initial, 0, current_date) :
                          initial \in SubBags(Lengths(population),
                                              Min2(SampleStep, total_samples \div 3))}}

\* detect_date_format(samples): the values it can return
DetectDateFormat(samples, forced, current_date) ==
    IF forced # None /\ ForcedAccepted(samples, forced[1])
    THEN {forced}
    ELSE AutoDetect(samples, current_date)

(***************************************************************************)
(* Date-range scan: ForensicsDataProcessor.scan_date_range                  *)
(***************************************************************************)
\* df_lazy.slice(offset, chunk_size).collect(): scan_csv has read the header,
\* the slice counts data rows
LazySlice(f, start, n) ==
    LET last == IF start + n < Len(f.rows) THEN start + n ELSE Len(f.rows)
    IN [columns |-> f.columns, rows |-> SubSeq(f.rows, start + 1, last)]

\* lines 307-311 and 375-379: the start times of the chunk that parse
ChunkDates(c) ==
    {ParseDateFlexible(c.rows[i]["Start Time"])[1] :
        i \in {k \in 1..Len(c.rows) : ParseDateFlexible(c.rows[k]["Start Time"]) # None}}

\* lines 313-320 and 381-388
ChunkMin(current_min, dates) ==
    IF dates = {} THEN current_min
    ELSE IF current_min = None \/ MinOf(dates) < current_min[1] THEN Some(MinOf(dates))
    ELSE current_min

ChunkMax(current_max, dates) ==
    IF dates = {} THEN current_max
    ELSE IF current_max = None \/ MaxOf(dates) > current_max[1] THEN Some(MaxOf(dates))
    ELSE current_max

\* utils.validate_complete_months(file_path, date_format, candidate_months)
\* as a function: the months before the first one that holds an attack of
\* its own are taken out; without the two date columns the select raises and
\* the candidates come back as they are.
ValidateCompleteMonths(f, candidates) ==
    IF ~({"Start Time", "End Time"} \subseteq f.columns) THEN candidates
    ELSE LET valid == {k \in 1..Len(candidates) :
                 Len(FullyContained(MonthAttacks(f, candidates[k][1], candidates[k][2]),
                                    candidates[k][1], candidates[k][2])) > 0}
         IN IF valid = {} THEN <<>>
            ELSE SubSeq(candidates, MinOf(valid), Len(candidates))

\* utils.get_complete_months(start_date, end_date, file_path, date_format)
GetCompleteMonths(f, start_date, end_date) ==
    LET months == CalendarCompleteMonths(start_date, end_date)
    IN IF months = <<>> THEN months ELSE ValidateCompleteMonths(f, months)

\* Mutant: without a date the scan returns its null bounds.
ScanResult_ReturnsNullBounds(f, lowest, highest) ==
    IF lowest # None /\ highest # None
    THEN [outcome |-> "returned",
          candidates |-> CalendarCompleteMonths(lowest[1], highest[1]),
          months |-> GetCompleteMonths(f, lowest[1], highest[1])]
    ELSE [outcome |-> "returned", candidates |-> <<>>, months |-> <<>>]

\* lines 413-426: `if min_date and max_date:` enumerates the months and
\* returns, the else raises ValueError("No valid dates found in the data")
ScanResult(f, lowest, highest) ==
    IF lowest # None /\ highest # None
    THEN [outcome |-> "returned",
          candidates |-> CalendarCompleteMonths(lowest[1], highest[1]),
          months |-> GetCompleteMonths(f, lowest[1], highest[1])]
    ELSE [outcome |-> "raised", candidates |-> <<>>, months |-> <<>>]

\* the while loop of process_holistic_analysis (lines 811-849) run to its end
RECURSIVE HolisticLoop(_, _, _, _, _)
HolisticLoop(st, f, filters, n, skip) ==
    LET read == ReadCsv(f, skip, n)
        original_chunk_size == Len(read.rows)
        updated == UpdateHolisticStats(st, ApplyDataFilters(read, filters))
    IN IF original_chunk_size = 0 THEN st
       ELSE IF original_chunk_size < n THEN updated
       ELSE HolisticLoop(updated, f, filters, n, skip + original_chunk_size)

(***************************************************************************)
(* Bounds and input sets                                                    *)
(***************************************************************************)
MaxBatch == 3          \* rows in a batch handed to the filter

RECURSIVE SeqsUpTo(_, _)
SeqsUpTo(S, n) ==
    IF n = 0 THEN {<<>>}
    ELSE LET shorter == SeqsUpTo(S, n - 1)
         IN shorter \cup {Append(q, x) : q \in {r \in shorter : Len(r) = n - 1}, x \in S}

\* A chunk never carries a value for a column it does not have.
Normalise(row, columns) ==
    [c \in Columns |-> IF c \in columns THEN row[c] ELSE BaseRow[c]]

FilterRowSet ==
    {[BaseRow EXCEPT !["Risk"] = risk, !["Direction"] = direction] :
        risk \in {"Low", "High", Null}, direction \in {"Internal", "External"}}

FilterHeaders == {Columns, Columns \ {"Direction"}}

\* EXCLUDE_FILTERS.items(): the examples of src/config.py:42-48, in either
\* order, one rule with two values and one with none.
FilterConfigs ==
    {<<>>,
     <<<<"Risk", {"Low"}>>>>,
     <<<<"Risk", {"Low", "High"}>>>>,
     <<<<"Risk", {}>>>>,
     <<<<"Direction", {"Internal"}>>>>,
     <<<<"Risk", {"Low"}>>, <<"Direction", {"Internal"}>>>>,
     <<<<"Direction", {"Internal"}>>, <<"Risk", {"Low"}>>>>,
     <<<<"Direction", {"External"}>>, <<"Risk", {"Low", "High"}>>>>}

(***************************************************************************)
(* Specification of the row filter                                          *)
(***************************************************************************)
FilterIdle ==
    /\ chunk = EmptyChunk
    /\ filtered = EmptyChunk
    /\ refiltered = EmptyChunk
    /\ fpc = "idle"

AccIdle ==
    /\ stats = NewMonthStats
    /\ batch = EmptyChunk

HolIdle ==
    /\ file = EmptyChunk
    /\ runs = <<>>
    /\ results = <<>>
    /\ hpc = "idle"
    /\ current_skip = 0
    /\ holistic_stats = NewHolisticStats

MonthIdle ==
    /\ mpc = "idle"
    /\ data_start_date = None
    /\ data_end_date = None
    /\ candidate_months = <<>>
    /\ month_i = 0
    /\ excluded_months = <<>>
    /\ first_valid_month_found = FALSE
    /\ complete_months = <<>>
    /\ monthly_trends = NoTrends

DetectIdle ==
    /\ sample_dates = <<>>
    /\ FORCE_DATE_FORMAT = None
    /\ now = 0
    /\ date_format = None
    /\ dpc = "idle"
    /\ detections = <<>>

BatchIdle ==
    /\ input_files = <<>>
    /\ file_i = 0
    /\ bpc = "idle"
    /\ result = None
    /\ batch_results = <<>>
    /\ successful_count = 0
    /\ failed_count = 0
    /\ summary = None

ScanIdle ==
    /\ spc = "idle"
    /\ self_chunk_size = CHUNK_SIZE
    /\ offset = 0
    /\ scan_skip = 0
    /\ min_date = None
    /\ max_date = None
    /\ processed_rows = 0
    /\ total_rows = 0
    /\ handed = <<>>

InitFilter ==
    /\ EXCLUDE_FILTERS \in FilterConfigs
    /\ \E columns \in FilterHeaders, rows \in SeqsUpTo(FilterRowSet, MaxBatch) :
          chunk = [columns |-> columns,
                   rows |-> [i \in 1..Len(rows) |-> Normalise(rows[i], columns)]]
    /\ filtered = EmptyChunk
    /\ refiltered = EmptyChunk
    /\ fpc = "start"
    /\ AccIdle
    /\ HolIdle
    /\ MonthIdle
    /\ DetectIdle
    /\ BatchIdle
    /\ ScanIdle

\* chunk = self._apply_data_filters(chunk)
Filter ==
    /\ fpc = "start"
    /\ filtered' = ApplyDataFilters(chunk, EXCLUDE_FILTERS)
    /\ fpc' = "filtered"
    /\ UNCHANGED <<EXCLUDE_FILTERS, batchVars, detectVars, scanVars, chunk, refiltered, accVars, holVars, monthVars>>

\* the filter applied to a batch it has already filtered
Refilter ==
    /\ fpc = "filtered"
    /\ refiltered' = ApplyDataFilters(filtered, EXCLUDE_FILTERS)
    /\ fpc' = "refiltered"
    /\ UNCHANGED <<EXCLUDE_FILTERS, batchVars, detectVars, scanVars, chunk, filtered, accVars, holVars, monthVars>>

NextFilter == Filter \/ Refilter

SpecFilter == InitFilter /\ [][NextFilter]_vars

(***************************************************************************)
(* Claims about the row filter (checked under SpecFilter)                   *)
(***************************************************************************)
RuleColumn(i) == EXCLUDE_FILTERS[i][1]
RuleValues(i) == EXCLUDE_FILTERS[i][2]
RuleIds == 1..Len(EXCLUDE_FILTERS)

AllRulesPresent ==
    \A i \in RuleIds : RuleColumn(i) \in chunk.columns /\ RuleValues(i) # {}

NoNullInRuleColumns ==
    \A i \in RuleIds, k \in 1..Len(chunk.rows) : chunk.rows[k][RuleColumn(i)] # Null

MatchesEveryRule(row) == \A i \in RuleIds : row[RuleColumn(i)] \in RuleValues(i)

\* C2: with several rules on distinct present columns, a row is dropped if
\* and only if its value is in the excluded set of every rule (AND across
\* columns); a row matching only some of the rules is kept.  Stated for
\* batches whose rows all carry a value in the rule columns.
C2_DropIffEveryRuleMatches ==
    (fpc # "start" /\ Len(EXCLUDE_FILTERS) >= 2 /\ AllRulesPresent /\ NoNullInRuleColumns)
        => filtered.rows = SelectSeq(chunk.rows, LAMBDA row : ~MatchesEveryRule(row))

\* C3: with one rule whose column is present, the filter returns exactly the
\* rows whose value is not in the excluded values, in their original order,
\* so the row count is the input count minus the number of matching rows.
C3_SingleRuleExactRows ==
    (fpc # "start" /\ Len(EXCLUDE_FILTERS) = 1 /\ AllRulesPresent)
        => /\ filtered.rows =
                SelectSeq(chunk.rows, LAMBDA row : row[RuleColumn(1)] \notin RuleValues(1))
           /\ Len(filtered.rows) = Len(chunk.rows)
                - Cardinality({k \in 1..Len(chunk.rows) :
                                 chunk.rows[k][RuleColumn(1)] \in RuleValues(1)})

PermutedFilters ==
    {[i \in RuleIds |-> EXCLUDE_FILTERS[p[i]]] : p \in Permutations(RuleIds)}

MaxUpdate == 2         \* rows in a batch handed to the accumulator
MaxEvents == 3         \* rows one accumulator ingests

AccRow(src, pkts, pps, bps) ==
    [BaseRow EXCEPT
        !["Start Time"] = DateCell("fmt", 10),
        !["Source IP Address"] = src,
        !["Destination IP Address"] = "10.0.0.9",
        !["Attack Name"] = "SYN Flood",
        !["Threat Category"] = "DoS",
        !["Protocol"] = "TCP",
        !["Action"] = "Drop",
        !["Device Name"] = "dp1",
        !["Policy Name"] = "pol1",
        !["Total Packets"] = pkts,
        !["Total Mbits"] = NumCell(1),
        !["Max pps"] = pps,
        !["Max bps"] = bps]

\* Rows told apart by their source IP, with every kind of numeric cell, and
\* two rows without a threat category or without an attack name.
AccRowSet ==
    {AccRow(src, t[1], t[2], t[3]) :
        src \in {"1.1.1.1", "2.2.2.2"},
        t \in {<<NumCell(1), NullCell, NullCell>>,
               <<NumCell(1), NumCell(1), NumCell(1)>>,
               <<NumCell(1), NumCell(2), NumCell(1)>>,
               <<NumCell(1), TextCell, NumCell(2)>>,
               <<NumCell(1), NumCell(1), TextCell>>,
               <<DottedCell, NumCell(2), NumCell(2)>>}}
    \cup {[AccRow("1.1.1.1", NumCell(1), NumCell(1), NumCell(1)) EXCEPT
              !["Threat Category"] = Null],
          [AccRow("1.1.1.1", NumCell(1), NumCell(1), NumCell(1)) EXCEPT
              !["Attack Name"] = Null]}

\* the header of the file the batches come from: every expected column, or
\* all but the optional threat category
AccHeaders == {Columns, Columns \ {"Threat Category"}}

\* without the threat category the rows differ in their source IP and in
\* having an attack name
AccRowSetNoCategory ==
    {AccRow("1.1.1.1", NumCell(1), NumCell(1), NumCell(1)),
     AccRow("2.2.2.2", NumCell(1), NumCell(2), NumCell(1)),
     [AccRow("1.1.1.1", NumCell(1), NumCell(1), NumCell(1)) EXCEPT
         !["Attack Name"] = Null]}

\* the batches of a file with the given header
AccBatches == SeqsUpTo(AccRowSet, MaxUpdate)
AccBatchesNoCategory == SeqsUpTo(AccRowSetNoCategory, MaxUpdate)
AccBatchesOf(columns) ==
    IF "Threat Category" \in columns THEN AccBatches ELSE AccBatchesNoCategory

InitAcc ==
    /\ EXCLUDE_FILTERS = <<>>
    /\ FilterIdle
    /\ stats = NewMonthStats
    /\ \E columns \in AccHeaders : batch = [columns |-> columns, rows |-> <<>>]
    /\ HolIdle
    /\ MonthIdle
    /\ DetectIdle
    /\ BatchIdle
    /\ ScanIdle

\* self._update_month_stats(stats, month_chunk)
Update ==
    \E rows \in AccBatchesOf(batch.columns) :
        /\ stats.total_events + Len(rows) <= MaxEvents
        /\ batch' = [columns |-> batch.columns,
                     rows |-> [i \in 1..Len(rows) |-> Normalise(rows[i], batch.columns)]]
        /\ stats' = UpdateMonthStats(stats, batch')
        /\ UNCHANGED <<EXCLUDE_FILTERS, batchVars, detectVars, scanVars, filterVars, holVars, monthVars>>

NextAcc == Update

SpecAcc == InitAcc /\ [][NextAcc]_vars

(***************************************************************************)
(* Specification of the holistic pass, run once per chunk size              *)
(***************************************************************************)
MaxRows == 3           \* data rows of the file
MaxChunk == 3          \* largest chunk size

HolRow(src, risk, pkts, pps, bps) ==
    [AccRow(src, pkts, pps, bps) EXCEPT !["Risk"] = risk, !["Duration"] = NumCell(1)]

HolRowSet ==
    {HolRow("1.1.1.1", "High", NumCell(1), NumCell(1), NumCell(1)),
     HolRow("2.2.2.2", "High", NumCell(1), NumCell(2), NumCell(2)),
     HolRow("3.3.3.3", "Low", NumCell(1), NumCell(2), NumCell(1)),
     HolRow("2.2.2.2", "High", DottedCell, NumCell(1), NumCell(1)),
     HolRow("1.1.1.1", "High", NumCell(1), TextCell, NullCell)}

HolConfigs == {<<>>, <<<<"Risk", {"Low"}>>>>}

InitHolistic ==
    /\ EXCLUDE_FILTERS \in HolConfigs
    /\ FilterIdle
    /\ AccIdle
    /\ \E rows \in SeqsUpTo(HolRowSet, MaxRows) : file = [columns |-> Columns, rows |-> rows]
    /\ runs \in {<<a, b>> : a \in 1..MaxChunk, b \in 1..MaxChunk} \ {<<a, a>> : a \in 1..MaxChunk}
    /\ results = <<>>
    /\ hpc = "loop"
    /\ current_skip = 1
    /\ holistic_stats = NewHolisticStats
    /\ MonthIdle
    /\ DetectIdle
    /\ BatchIdle
    /\ ScanIdle

chunk_size == runs[Len(results) + 1]

TopCount == 20
SecondsPerDay == 86400
SecondsPerHour == 3600
SecondsPerMinute == 60

\* sorted(items, key=lambda x: x[1], reverse=True): by count, largest first;
\* the sort is stable, items of one count keep their order
RECURSIVE SortedByCount(_)
SortedByCount(items) ==
    IF items = <<>> THEN <<>>
    ELSE LET front == SortedByCount(SubSeq(items, 1, Len(items) - 1))
             x == items[Len(items)]
             before == Cardinality({j \in 1..Len(front) : front[j].count >= x.count})
         IN SubSeq(front, 1, before) \o <<x>> \o SubSeq(front, before + 1, Len(front))

\* Mutant: the items are cut to the first 20 without being sorted.
TopItems_Unsorted(items) ==
    SubSeq(items, 1, IF Len(items) < TopCount THEN Len(items) ELSE TopCount)

\* lines 870-876: dict(sorted(...)[:20])
TopItems(items) ==
    LET by_count == SortedByCount(items)
    IN SubSeq(by_count, 1, IF Len(by_count) < TopCount THEN Len(by_count) ELSE TopCount)

\* Mutant: the hours are taken from the whole duration.
FormatDuration_HoursOfTotal(max_duration_seconds) ==
    [days |-> Some(max_duration_seconds \div SecondsPerDay),
     hours |-> max_duration_seconds \div SecondsPerHour,
     minutes |-> (max_duration_seconds % SecondsPerHour) \div SecondsPerMinute,
     seconds |-> max_duration_seconds % SecondsPerMinute]

\* lines 880-886: f"{days}d:{hours:02d}h:{minutes:02d}m:{seconds:02d}s", the
\* string being kept as the numbers it prints
FormatDuration(max_duration_seconds) ==
    [days |-> Some(max_duration_seconds \div SecondsPerDay),
     hours |-> (max_duration_seconds % SecondsPerDay) \div SecondsPerHour,
     minutes |-> (max_duration_seconds % SecondsPerHour) \div SecondsPerMinute,
     seconds |-> max_duration_seconds % SecondsPerMinute]

\* line 888: "00h:00m:00s", a string without days
ZeroDuration == [days |-> None, hours |-> 0, minutes |-> 0, seconds |-> 0]

\* the post-processing (lines 867-889): the sets of unique IPs become their
\* sizes, the IP counts their 20 largest, and the longest duration is formatted
Finalize(st) ==
    LET post == [st EXCEPT !.unique_source_ips = Cardinality(@),
                           !.unique_dest_ips = Cardinality(@),
                           !.top_source_ips = TopItems(@),
                           !.top_dest_ips = TopItems(@)]
    IN [k \in DOMAIN post \cup {"longest_attack_duration"} |->
          IF k = "longest_attack_duration"
          THEN IF st.longest_attack_details # None
               THEN FormatDuration(st.longest_attack_details[1].duration)
               ELSE ZeroDuration
          ELSE post[k]]

\* one turn of the while loop of process_holistic_analysis (lines 811-849)
HolisticChunk ==
    /\ hpc = "loop"
    /\ LET read == ReadCsv(file, current_skip, chunk_size)
           original_chunk_size == Len(read.rows)
       IN IF original_chunk_size = 0
          THEN /\ hpc' = "post"
               /\ UNCHANGED <<current_skip, holistic_stats>>
          ELSE /\ holistic_stats' =
                     UpdateHolisticStats(holistic_stats, ApplyDataFilters(read, EXCLUDE_FILTERS))
               /\ current_skip' = current_skip + original_chunk_size
               /\ hpc' = IF original_chunk_size < chunk_size THEN "post" ELSE "loop"
    /\ UNCHANGED <<EXCLUDE_FILTERS, batchVars, detectVars, scanVars, filterVars, accVars, monthVars, file, runs, results>>

\* the post-processing after the loop (lines 851-892)
HolisticPostProcess ==
    /\ hpc = "post"
    /\ results' = Append(results, Finalize(holistic_stats))
    /\ hpc' = "done"
    /\ UNCHANGED <<EXCLUDE_FILTERS, batchVars, detectVars, scanVars, filterVars, accVars, monthVars, file, runs,
                   current_skip, holistic_stats>>

\* process_holistic_analysis of a processor built with the next chunk size
HolisticRerun ==
    /\ hpc = "done"
    /\ Len(results) < Len(runs)
    /\ hpc' = "loop"
    /\ current_skip' = 1
    /\ holistic_stats' = NewHolisticStats
    /\ UNCHANGED <<EXCLUDE_FILTERS, batchVars, detectVars, scanVars, filterVars, accVars, monthVars, file, runs, results>>

NextHolistic == HolisticChunk \/ HolisticPostProcess \/ HolisticRerun

SpecHolistic == InitHolistic /\ [][NextHolistic]_vars

(***************************************************************************)
(* Specification of scan_date_range with the two phases of                  *)
(* get_complete_months                                                      *)
(***************************************************************************)
MaxMonthRows == 3      \* data rows of the file whose months are validated

\* December of one year, January and February of the next
WindowMonths == {Datetime(0, 12, 1), Datetime(1, 1, 1), Datetime(1, 2, 1)}

\* Attacks of a month: at its first or at its last instant and over at
\* once, one that lasts the whole month, and two that end at the first
\* instant of the next month.
MonthIntervals(m) ==
    LET first == m
        inner == m + 10
        last == NextMonthStart(m) - 1
    IN {<<first, first>>, <<last, last>>, <<first, last>>,
        <<inner, NextMonthStart(m)>>, <<last, NextMonthStart(m)>>}

MonthRow(start, end) ==
    [AccRow("1.1.1.1", NumCell(1), NumCell(1), NumCell(1)) EXCEPT
        !["Start Time"] = start, !["End Time"] = end]

MonthRowSet ==
    {MonthRow(DateCell("fmt", iv[1]), DateCell("fmt", iv[2])) :
        iv \in UNION {MonthIntervals(m) : m \in WindowMonths}}
    \cup {MonthRow(DateCell("flex", Datetime(1, 1, 1) + 10), DateCell("fmt", Datetime(1, 1, 1) + 10)),
          MonthRow(DateCell("fmt", Datetime(1, 1, 1) + 10), NullDate),
          MonthRow(DateCell("bad", 0), DateCell("bad", 0))}

MonthHeaders == {Columns, Columns \ {"End Time"}}

InitMonths ==
    /\ EXCLUDE_FILTERS = <<>>
    /\ FilterIdle
    /\ AccIdle
    /\ \E columns \in MonthHeaders, rows \in SeqsUpTo(MonthRowSet, MaxMonthRows) :
          file = [columns |-> columns,
                  rows |-> [i \in 1..Len(rows) |-> Normalise(rows[i], columns)]]
    /\ runs = <<>>
    /\ results = <<>>
    /\ hpc = "idle"
    /\ current_skip = 0
    /\ holistic_stats = NewHolisticStats
    /\ DetectIdle
    /\ BatchIdle
    /\ ScanIdle
    /\ mpc = "scan"
    /\ data_start_date = None
    /\ data_end_date = None
    /\ candidate_months = <<>>
    /\ month_i = 0
    /\ excluded_months = <<>>
    /\ first_valid_month_found = FALSE
    /\ complete_months = <<>>
    /\ monthly_trends = NoTrends

\* scan_date_range up to the call of get_complete_months, and phase 1 of it
\* (data_processor.py 261-426, utils.py 347-387).  Without a date the scan
\* raises; without a candidate month phase 2 is skipped.
ScanDateRange ==
    /\ mpc = "scan"
    /\ LET dates == ScannedDates(file, EXCLUDE_FILTERS)
       IN IF dates = {}
          THEN /\ mpc' = "failed"
               /\ UNCHANGED <<data_start_date, data_end_date, candidate_months, month_i>>
          ELSE LET months == CalendarCompleteMonths(MinOf(dates), MaxOf(dates))
               IN /\ data_start_date' = Some(MinOf(dates))
                  /\ data_end_date' = Some(MaxOf(dates))
                  /\ candidate_months' = months
                  /\ month_i' = 1
                  /\ mpc' = IF months = <<>> THEN "done" ELSE "validate"
    /\ UNCHANGED <<EXCLUDE_FILTERS, batchVars, detectVars, scanVars, filterVars, accVars, holVars, excluded_months,
                   first_valid_month_found, complete_months, monthly_trends>>

\* one turn of the loop of validate_complete_months (lines 439-495).  The
\* select of a column the file does not have raises, and the except returns
\* the candidate months as they are (lines 511-514).
ValidateMonth ==
    /\ mpc = "validate"
    /\ month_i <= Len(candidate_months)
    /\ ~first_valid_month_found
    /\ IF ~({"Start Time", "End Time"} \subseteq file.columns)
       THEN /\ complete_months' = candidate_months
            /\ mpc' = "done"
            /\ UNCHANGED <<month_i, excluded_months, first_valid_month_found>>
       ELSE LET month_start == candidate_months[month_i][1]
                month_end == candidate_months[month_i][2]
                month_attacks == MonthAttacks(file, month_start, month_end)
                fully_contained == FullyContained(month_attacks, month_start, month_end)
            IN /\ IF Len(month_attacks) = 0 \/ Len(fully_contained) = 0
                  THEN /\ excluded_months' = Append(excluded_months, candidate_months[month_i])
                       /\ month_i' = month_i + 1
                       /\ UNCHANGED first_valid_month_found
                  ELSE /\ first_valid_month_found' = TRUE
                       /\ UNCHANGED <<month_i, excluded_months>>
               /\ UNCHANGED <<mpc, complete_months>>
    /\ UNCHANGED <<EXCLUDE_FILTERS, batchVars, detectVars, scanVars, filterVars, accVars, holVars, data_start_date,
                   data_end_date, candidate_months, monthly_trends>>

\* after the loop (lines 497-509): the excluded months leave the list
ValidateReturn ==
    /\ mpc = "validate"
    /\ month_i > Len(candidate_months) \/ first_valid_month_found
    /\ complete_months' = RemoveExcluded(candidate_months, excluded_months)
    /\ mpc' = "done"
    /\ UNCHANGED <<EXCLUDE_FILTERS, batchVars, detectVars, scanVars, filterVars, accVars, holVars, data_start_date,
                   data_end_date, candidate_months, month_i, excluded_months,
                   first_valid_month_found, monthly_trends>>

\* trends_data = processor.process_monthly_trends() (analyzer.py, after the scan)
MonthlyTrends ==
    /\ mpc = "done"
    /\ monthly_trends' = ProcessMonthlyTrends(file, EXCLUDE_FILTERS, CHUNK_SIZE, complete_months)
    /\ mpc' = "trends"
    /\ UNCHANGED <<EXCLUDE_FILTERS, batchVars, detectVars, scanVars, filterVars, accVars, holVars, data_start_date,
                   data_end_date, candidate_months, month_i, excluded_months,
                   first_valid_month_found, complete_months>>

NextMonths == ScanDateRange \/ ValidateMonth \/ ValidateReturn \/ MonthlyTrends

SpecMonths == InitMonths /\ [][NextMonths]_vars

(***************************************************************************)
(* Specification of the runs of the pipeline up to the date scan:           *)
(* analyze_file_structure (format detection) and scan_date_range            *)
(***************************************************************************)
MaxRuns == 2           \* runs of equal strings in the Start Time column
MaxPipelineRuns == 2   \* runs of the pipeline on the file

\* n_rows=1000 of analyze_file_structure
SampleRows == 1000

\* one string of every kind, five of those that are evidence of a format,
\* and a long run of ambiguous dates that takes the sample past the size
\* sampled in full
RunSet ==
    {[kind |-> k, n |-> 1] : k \in {"amb", "dd", "mm", "iso", "short", "empty"}}
    \cup {[kind |-> k, n |-> 5] : k \in {"dd", "mm"}}
    \cup {[kind |-> "amb", n |-> 990]}

SampleLists ==
    {q \in SeqsUpTo(RunSet, MaxRuns) : TotalOf(Lengths(q)) <= SampleRows}

ForcedFormats == {None, Some(DayFirst), Some(MonthFirst), Some(IsoFormat)}

\* clocks: before both readings of an ambiguous date, between them, after
Clocks == {-40, -10, 100}

InitDetect ==
    /\ EXCLUDE_FILTERS = <<>>
    /\ FilterIdle
    /\ AccIdle
    /\ HolIdle
    /\ MonthIdle
    /\ ScanIdle
    /\ BatchIdle
    /\ sample_dates \in SampleLists
    /\ FORCE_DATE_FORMAT \in ForcedFormats
    /\ now \in Clocks
    /\ date_format = None
    /\ dpc = "analyze"
    /\ detections = <<>>

\* processor.analyze_file_structure(): self.date_format = detect_date_format(...)
AnalyzeFileStructure ==
    /\ dpc = "analyze"
    /\ \E detected \in DetectDateFormat(sample_dates, FORCE_DATE_FORMAT, now) :
          /\ date_format' = detected
          /\ detections' = Append(detections, detected)
    /\ dpc' = "scan"
    /\ UNCHANGED <<EXCLUDE_FILTERS, batchVars, filterVars, accVars, holVars, monthVars,
                   scanVars, sample_dates, FORCE_DATE_FORMAT, now>>

\* parse_date_flexible(date_str, self.date_format) gives a date: the
\* detected format, the formats of DATE_FORMATS or dateutil reads the string
ParsesFlexibly(kind, detected_format) ==
    \/ detected_format # None /\ Parses(kind, detected_format[1])
    \/ \E i \in 1..Len(DATE_FORMATS) : Parses(kind, DATE_FORMATS[i])
    \/ kind \in {"amb", "dd", "mm", "iso", "short"}

\* processor.scan_date_range(): it raises when no start time parses
ScanDetected ==
    /\ dpc = "scan"
    /\ dpc' = IF \E i \in 1..Len(sample_dates) :
                    ParsesFlexibly(sample_dates[i].kind, date_format)
              THEN "scanned" ELSE "failed"
    /\ UNCHANGED <<EXCLUDE_FILTERS, batchVars, filterVars, accVars, holVars, monthVars,
                   scanVars, sample_dates, FORCE_DATE_FORMAT, now, date_format, detections>>

\* the pipeline run again on the unchanged file, at a later time
PipelineRerun ==
    /\ dpc \in {"scanned", "failed"}
    /\ Len(detections) < MaxPipelineRuns
    /\ \E later \in Clocks : later >= now /\ now' = later
    /\ date_format' = None
    /\ dpc' = "analyze"
    /\ UNCHANGED <<EXCLUDE_FILTERS, batchVars, filterVars, accVars, holVars, monthVars,
                   scanVars, sample_dates, FORCE_DATE_FORMAT, detections>>

NextDetect == AnalyzeFileStructure \/ ScanDetected \/ PipelineRerun

SpecDetect == InitDetect /\ [][NextDetect]_vars

(***************************************************************************)
(* Specification of the date-range scan, chunk by chunk, and of the passes  *)
(* process_single_file runs after it                                        *)
(***************************************************************************)
MaxScanRows == 3       \* data rows of the scanned file
MaxScanChunk == 3      \* largest chunk size of the scan

\* the earliest start time needs a fallback of parse_date_flexible, the
\* others are in the detected format; EarlyStart and LateStart enclose a
\* whole month
EarliestStart == Datetime(0, 12, 1) + 30
EarlyStart == Datetime(1, 1, 1)
LateStart == Datetime(1, 2, 1) + 5

ScanRow(start, risk) == [MonthRow(start, start) EXCEPT !["Risk"] = risk]

ScanRowSet ==
    {ScanRow(DateCell("fmt", EarlyStart), "High"),
     ScanRow(DateCell("fmt", LateStart), "High"),
     ScanRow(DateCell("flex", EarliestStart), "High"),
     ScanRow(DateCell("bad", 0), "High"),
     ScanRow(DateCell("fmt", EarlyStart), "Low"),
     ScanRow(DateCell("flex", EarliestStart), "Low")}

\* The scan starts after analyze_file_structure has found the required
\* columns (lines 80-84), 'Start Time' among them.
InitScan ==
    /\ EXCLUDE_FILTERS \in HolConfigs
    /\ FilterIdle
    /\ AccIdle
    /\ \E rows \in SeqsUpTo(ScanRowSet, MaxScanRows) : file = [columns |-> Columns, rows |-> rows]
    /\ runs = <<>>
    /\ results = <<>>
    /\ hpc = "idle"
    /\ current_skip = 0
    /\ holistic_stats = NewHolisticStats
    /\ MonthIdle
    /\ DetectIdle
    /\ BatchIdle
    /\ spc = "lazy"
    /\ self_chunk_size \in 1..MaxScanChunk
    /\ offset = 0
    /\ scan_skip = 0
    /\ min_date = None
    /\ max_date = None
    /\ processed_rows = 0
    /\ total_rows = 0
    /\ handed = <<>>

\* one turn of the lazy loop (lines 286-330)
LazyChunk ==
    /\ spc = "lazy"
    /\ LET read == LazySlice(file, offset, self_chunk_size)
           original_chunk_size == Len(read.rows)
           kept == ApplyDataFilters(read, EXCLUDE_FILTERS)
           dates == ChunkDates(kept)
       IN IF original_chunk_size = 0
          THEN /\ spc' = "end"
               /\ UNCHANGED <<offset, min_date, max_date, processed_rows, handed>>
          ELSE IF "Start Time" \notin read.columns
          THEN /\ offset' = offset + self_chunk_size
               /\ UNCHANGED <<spc, min_date, max_date, processed_rows, handed>>
          ELSE IF Len(kept.rows) = 0
          THEN /\ handed' = handed \o read.rows
               /\ offset' = offset + self_chunk_size
               /\ UNCHANGED <<spc, min_date, max_date, processed_rows>>
          ELSE /\ handed' = handed \o read.rows
               /\ min_date' = ChunkMin(min_date, dates)
               /\ max_date' = ChunkMax(max_date, dates)
               /\ processed_rows' = processed_rows + Len(kept.rows)
               /\ offset' = offset + self_chunk_size
               /\ spc' = IF original_chunk_size < self_chunk_size THEN "end" ELSE "lazy"
    /\ UNCHANGED <<EXCLUDE_FILTERS, batchVars, filterVars, accVars, holVars, monthVars, detectVars,
                   self_chunk_size, scan_skip, total_rows>>

\* scan_csv or a collect raises: `except Exception as lazy_error` (lines
\* 332-350) reads the header and starts the eager loop at the first line
\* after it, with min_date, max_date and processed_rows as they are
LazyFails ==
    /\ spc = "lazy"
    /\ IF "Start Time" \notin file.columns
       THEN /\ spc' = "returned_none"
            /\ UNCHANGED scan_skip
       ELSE /\ spc' = "eager"
            /\ scan_skip' = 1
    /\ UNCHANGED <<EXCLUDE_FILTERS, batchVars, filterVars, accVars, holVars, monthVars, detectVars,
                   self_chunk_size, handed, offset, min_date, max_date, processed_rows, total_rows>>

\* one turn of the eager loop (lines 352-407); a read past the end of the
\* file raises or is empty, and both end the loop
EagerChunk ==
    /\ spc = "eager"
    /\ LET read == ReadCsv(file, scan_skip, self_chunk_size)
           original_chunk_size == Len(read.rows)
           kept == ApplyDataFilters(read, EXCLUDE_FILTERS)
           dates == ChunkDates(kept)
       IN IF original_chunk_size = 0
          THEN /\ spc' = "end"
               /\ UNCHANGED <<scan_skip, min_date, max_date, processed_rows, handed>>
          ELSE /\ handed' = handed \o read.rows
               /\ min_date' = ChunkMin(min_date, dates)
               /\ max_date' = ChunkMax(max_date, dates)
               /\ processed_rows' = processed_rows + Len(kept.rows)
               /\ scan_skip' = scan_skip + original_chunk_size
               /\ spc' = IF original_chunk_size < self_chunk_size THEN "end" ELSE "eager"
    /\ UNCHANGED <<EXCLUDE_FILTERS, batchVars, filterVars, accVars, holVars, monthVars, detectVars,
                   self_chunk_size, offset, total_rows>>

\* after the loops (lines 409-426): the fields are set, then the months are
\* enumerated and validated, or the scan raises
ScanReturn ==
    /\ spc = "end"
    /\ data_start_date' = min_date
    /\ data_end_date' = max_date
    /\ total_rows' = processed_rows
    /\ LET returned == ScanResult(file, min_date, max_date)
       IN /\ spc' = returned.outcome
          /\ candidate_months' = returned.candidates
          /\ complete_months' = returned.months
    /\ UNCHANGED <<EXCLUDE_FILTERS, batchVars, filterVars, accVars, holVars, detectVars, mpc, month_i,
                   excluded_months, first_valid_month_found, monthly_trends,
                   self_chunk_size, handed, offset, scan_skip, min_date, max_date, processed_rows>>

\* analyzer.py 233-238: the range is logged (a null bound has no date()) and
\* the monthly pass runs
MonthlyPass ==
    /\ spc \in {"returned", "returned_none"}
    /\ IF spc = "returned_none"
       THEN /\ spc' = "failed"
            /\ UNCHANGED monthly_trends
       ELSE /\ monthly_trends' =
                   ProcessMonthlyTrends(file, EXCLUDE_FILTERS, self_chunk_size, complete_months)
            /\ spc' = "monthly"
    /\ UNCHANGED <<EXCLUDE_FILTERS, batchVars, filterVars, accVars, holVars, detectVars, mpc,
                   data_start_date, data_end_date, candidate_months, month_i,
                   excluded_months, first_valid_month_found, complete_months,
                   self_chunk_size, handed, offset, scan_skip, min_date, max_date, processed_rows,
                   total_rows>>

\* analyzer.py 240-242: holistic_data = processor.process_holistic_analysis()
HolisticPass ==
    /\ spc = "monthly"
    /\ results' = <<Finalize(HolisticLoop(NewHolisticStats, file, EXCLUDE_FILTERS,
                                          self_chunk_size, 1))>>
    /\ spc' = "holistic"
    /\ UNCHANGED <<EXCLUDE_FILTERS, batchVars, filterVars, accVars, monthVars, detectVars, file, runs,
                   hpc, current_skip, holistic_stats, self_chunk_size, handed, offset, scan_skip,
                   min_date, max_date, processed_rows, total_rows>>

\* analyzer.py 270-274: the error of the scan ends the processing of the file
FileFails ==
    /\ spc = "raised"
    /\ spc' = "failed"
    /\ UNCHANGED <<EXCLUDE_FILTERS, batchVars, filterVars, accVars, holVars, monthVars, detectVars,
                   self_chunk_size, handed, offset, scan_skip, min_date, max_date, processed_rows,
                   total_rows>>

NextScan == LazyChunk \/ LazyFails \/ EagerChunk \/ ScanReturn \/ MonthlyPass
               \/ HolisticPass \/ FileFails

SpecScan == InitScan /\ [][NextScan]_vars

(***************************************************************************)
(* Specification of the batch: ForensicsAnalyzer.process_all_files and      *)
(* process_single_file                                                      *)
(***************************************************************************)
MaxFiles == 2          \* files discover_input_files returns

\* config.REQUIRED_COLUMNS
REQUIRED_COLUMNS == {"Start Time", "Attack Name", "Source IP Address", "Destination IP Address"}

\* A discovered file: its name, whether it can be read, its header and rows,
\* and whether the report generator raises on its statistics.
InputFile(name, readable, columns, rows, report_raises) ==
    [name |-> name, readable |-> readable, report_raises |-> report_raises,
     data |-> [columns |-> columns,
               rows |-> [i \in 1..Len(rows) |-> Normalise(rows[i], columns)]]]

\* rows of December, of January and of the first day of February
BatchRows ==
    <<ScanRow(DateCell("fmt", Datetime(0, 12, 1)), "High"),
      ScanRow(DateCell("fmt", EarliestStart), "High"),
      ScanRow(DateCell("fmt", EarlyStart), "High"),
      ScanRow(DateCell("fmt", LateStart), "High")>>

\* a sound file, one without its optional columns, one without a required
\* column, one without the start time, one whose dates do not parse, one
\* that cannot be read and one whose report cannot be written
InputFileSet ==
    {InputFile(name, TRUE, Columns, BatchRows, FALSE) : name \in {"a.csv", "b.csv"}}
    \cup {InputFile("b.csv", TRUE, REQUIRED_COLUMNS, BatchRows, FALSE),
          InputFile("c.csv", TRUE, Columns \ {"Attack Name"}, BatchRows, FALSE),
          InputFile("d.csv", TRUE, Columns \ {"Start Time"}, BatchRows, FALSE),
          InputFile("e.csv", TRUE, Columns, <<ScanRow(DateCell("bad", 0), "High")>>, FALSE),
          InputFile("f.csv", FALSE, Columns, BatchRows, FALSE),
          InputFile("g.csv", TRUE, Columns, BatchRows, TRUE)}

\* discover_input_files() (analyzer.py 82-122): the files found, without
\* duplicates
DiscoverInputFiles ==
    {fs \in SeqsUpTo(InputFileSet, MaxFiles) :
        \A i, j \in 1..Len(fs) : i # j => fs[i] # fs[j]}

InitBatch ==
    /\ EXCLUDE_FILTERS = <<>>
    /\ FilterIdle
    /\ AccIdle
    /\ HolIdle
    /\ MonthIdle
    /\ DetectIdle
    /\ ScanIdle
    /\ input_files \in DiscoverInputFiles
    /\ file_i = 0
    /\ bpc = "start"
    /\ result = None
    /\ batch_results = <<>>
    /\ successful_count = 0
    /\ failed_count = 0
    /\ summary = None

NewResult_SuccessfulAtFirst(file_name) ==
    [file_name |-> file_name, success |-> TRUE, error_message |-> None]

\* the results dictionary of process_single_file (analyzer.py 207-214)
NewResult(file_name) == [file_name |-> file_name, success |-> FALSE, error_message |-> None]

Failed_MarkedSuccessful(res, message) ==
    [res EXCEPT !.success = TRUE, !.error_message = Some(message)]

\* the return of the except of process_single_file (lines 270-274) and of
\* the failed validation (lines 222-224)
Failed(res, message) == [res EXCEPT !.error_message = Some(message)]

\* analyzer.py 291-304: without input files the summary is returned at once;
\* otherwise the loop starts
StartBatch ==
    /\ bpc = "start"
    /\ IF Len(input_files) = 0
       THEN /\ summary' = Some([success |-> FALSE, total_files |-> 0, processed_files |-> 0,
                                failed_files |-> 0, results |-> <<>>])
            /\ bpc' = "done"
       ELSE /\ bpc' = "next"
            /\ UNCHANGED summary
    /\ UNCHANGED <<EXCLUDE_FILTERS, filterVars, accVars, holVars, monthVars, detectVars,
                   scanVars, input_files, file_i, result, batch_results, successful_count,
                   failed_count>>

\* the head of the for loop (lines 311-315) and of process_single_file
\* (lines 200-214)
StartFile ==
    /\ bpc = "next"
    /\ file_i < Len(input_files)
    /\ file_i' = file_i + 1
    /\ result' = Some(NewResult(input_files[file_i + 1].name))
    /\ bpc' = "validate"
    /\ UNCHANGED <<EXCLUDE_FILTERS, filterVars, accVars, holVars, monthVars, detectVars,
                   scanVars, input_files, batch_results, successful_count, failed_count,
                   summary>>

\* validate_input_file(file_path) (analyzer.py 158-182, utils.py 639-692): a
\* file that cannot be read or lacks a required column is not valid.  A
\* valid file gets its processor (line 226).
ValidateInputFile ==
    /\ bpc = "validate"
    /\ LET f == input_files[file_i]
       IN IF f.readable /\ REQUIRED_COLUMNS \subseteq f.data.columns
          THEN /\ file' = f.data
               /\ data_start_date' = None
               /\ data_end_date' = None
               /\ complete_months' = <<>>
               /\ bpc' = "analyze"
               /\ UNCHANGED result
          ELSE /\ result' = Some(Failed(result[1], "File validation failed"))
               /\ bpc' = "record"
               /\ UNCHANGED <<file, data_start_date, data_end_date, complete_months>>
    /\ UNCHANGED <<EXCLUDE_FILTERS, filterVars, accVars, runs, results, hpc, current_skip,
                   holistic_stats, mpc, candidate_months, month_i, excluded_months,
                   first_valid_month_found, monthly_trends, detectVars, scanVars,
                   input_files, file_i, batch_results, successful_count, failed_count,
                   summary>>

\* processor.analyze_file_structure() (data_processor.py 79-83): a missing
\* required column raises
CheckRequiredColumns ==
    /\ bpc = "analyze"
    /\ IF REQUIRED_COLUMNS \subseteq file.columns
       THEN /\ bpc' = "scan"
            /\ UNCHANGED result
       ELSE /\ result' = Some(Failed(result[1], "Missing required columns"))
            /\ bpc' = "record"
    /\ UNCHANGED <<EXCLUDE_FILTERS, filterVars, accVars, holVars, monthVars, detectVars,
                   scanVars, input_files, file_i, batch_results, successful_count,
                   failed_count, summary>>

\* processor.scan_date_range() (analyzer.py 233), on its lazy path
ScanFile ==
    /\ bpc = "scan"
    /\ LET dates == ScannedDates(file, EXCLUDE_FILTERS)
       IN IF dates = {}
          THEN /\ result' = Some(Failed(result[1], "No valid dates found in the data"))
               /\ bpc' = "record"
               /\ UNCHANGED <<data_start_date, data_end_date, complete_months>>
          ELSE /\ data_start_date' = Some(MinOf(dates))
               /\ data_end_date' = Some(MaxOf(dates))
               /\ complete_months' = GetCompleteMonths(file, MinOf(dates), MaxOf(dates))
               /\ bpc' = "monthly"
               /\ UNCHANGED result
    /\ UNCHANGED <<EXCLUDE_FILTERS, filterVars, accVars, holVars, mpc, candidate_months,
                   month_i, excluded_months, first_valid_month_found, monthly_trends,
                   detectVars, scanVars, input_files, file_i, batch_results,
                   successful_count, failed_count, summary>>

\* processor.process_monthly_trends() (analyzer.py 238)
MonthlyTrendsOfFile ==
    /\ bpc = "monthly"
    /\ monthly_trends' = ProcessMonthlyTrends(file, EXCLUDE_FILTERS, CHUNK_SIZE, complete_months)
    /\ bpc' = "holistic"
    /\ UNCHANGED <<EXCLUDE_FILTERS, filterVars, accVars, holVars, mpc, data_start_date,
                   data_end_date, candidate_months, month_i, excluded_months,
                   first_valid_month_found, complete_months, detectVars, scanVars,
                   input_files, file_i, result, batch_results, successful_count,
                   failed_count, summary>>

\* processor.process_holistic_analysis() (analyzer.py 242)
HolisticAnalysisOfFile ==
    /\ bpc = "holistic"
    /\ results' = <<Finalize(HolisticLoop(NewHolisticStats, file, EXCLUDE_FILTERS,
                                          CHUNK_SIZE, 1))>>
    /\ bpc' = "reports"
    /\ UNCHANGED <<EXCLUDE_FILTERS, filterVars, accVars, file, runs, hpc, current_skip,
                   holistic_stats, monthVars, detectVars, scanVars, input_files,
                   file_i, result, batch_results, successful_count, failed_count, summary>>

\* self.report_generator.generate_reports(...) (analyzer.py 249-260): it
\* returns and the result is a success, or it raises
GenerateReports ==
    /\ bpc = "reports"
    /\ IF input_files[file_i].report_raises
       THEN result' = Some(Failed(result[1], "Failed to generate reports"))
       ELSE result' = Some([result[1] EXCEPT !.success = TRUE])
    /\ bpc' = "record"
    /\ UNCHANGED <<EXCLUDE_FILTERS, filterVars, accVars, holVars, monthVars, detectVars,
                   scanVars, input_files, file_i, batch_results, successful_count,
                   failed_count, summary>>

\* analyzer.py 315-321: the result of the file is appended and counted
RecordResult ==
    /\ bpc = "record"
    /\ batch_results' = Append(batch_results, result[1])
    /\ IF result[1].success
       THEN /\ successful_count' = successful_count + 1
            /\ UNCHANGED failed_count
       ELSE /\ failed_count' = failed_count + 1
            /\ UNCHANGED successful_count
    /\ bpc' = "next"
    /\ UNCHANGED <<EXCLUDE_FILTERS, filterVars, accVars, holVars, monthVars, detectVars,
                   scanVars, input_files, file_i, result, summary>>

\* analyzer.py 334-350: the summary after the loop
Summarise ==
    /\ bpc = "next"
    /\ file_i = Len(input_files)
    /\ summary' = Some([success |-> failed_count = 0,
                        total_files |-> Len(input_files),
                        processed_files |-> successful_count,
                        failed_files |-> failed_count,
                        results |-> batch_results])
    /\ bpc' = "done"
    /\ UNCHANGED <<EXCLUDE_FILTERS, filterVars, accVars, holVars, monthVars, detectVars,
                   scanVars, input_files, file_i, result, batch_results, successful_count,
                   failed_count>>

NextBatch == StartBatch \/ StartFile \/ ValidateInputFile \/ CheckRequiredColumns
                \/ ScanFile \/ MonthlyTrendsOfFile \/ HolisticAnalysisOfFile
                \/ GenerateReports \/ RecordResult \/ Summarise

SpecBatch == InitBatch /\ [][NextBatch]_vars

(***************************************************************************)
(* Specification of the holistic accumulator under repeated updates and     *)
(* its post-processing                                                      *)
(***************************************************************************)
MaxHolUpdate == 2      \* rows in a batch handed to the holistic accumulator
MaxHolEvents == 3      \* rows the holistic accumulator ingests

HolAccRow(start, pkts, duration, src) ==
    [AccRow(src, pkts, NumCell(1), NumCell(1)) EXCEPT
        !["Start Time"] = start, !["Risk"] = "High", !["Duration"] = duration]

\* Rows with durations 0, 1 and 2 (the 2 twice, in different rows), without
\* a duration, with a duration float() rejects, with a start time that does
\* not parse and with a packet count float() rejects.
HolAccRowSet ==
    {HolAccRow(DateCell("fmt", 10), NumCell(1), NumCell(1), "1.1.1.1"),
     HolAccRow(DateCell("fmt", 10), NumCell(1), NumCell(2), "2.2.2.2"),
     HolAccRow(DateCell("fmt", 30), NumCell(1), NumCell(2), "1.1.1.1"),
     HolAccRow(DateCell("fmt", 10), NumCell(1), NumCell(0), "2.2.2.2"),
     HolAccRow(DateCell("fmt", 10), NumCell(1), NullCell, "1.1.1.1"),
     HolAccRow(DateCell("fmt", 10), NumCell(1), DottedCell, "2.2.2.2"),
     HolAccRow(DateCell("bad", 0), NumCell(1), NumCell(1), "1.1.1.1"),
     HolAccRow(DateCell("fmt", 30), DottedCell, NumCell(1), "2.2.2.2")}

HolAccBatches == SeqsUpTo(HolAccRowSet, MaxHolUpdate)

InitHolisticAcc ==
    /\ EXCLUDE_FILTERS = <<>>
    /\ FilterIdle
    /\ stats = NewMonthStats
    /\ batch = [columns |-> Columns, rows |-> <<>>]
    /\ file = EmptyChunk
    /\ runs = <<>>
    /\ results = <<>>
    /\ hpc = "loop"
    /\ current_skip = 1
    /\ holistic_stats = NewHolisticStats
    /\ MonthIdle
    /\ DetectIdle
    /\ ScanIdle
    /\ BatchIdle

\* self._update_holistic_stats(holistic_stats, chunk) in the loop of
\* process_holistic_analysis
UpdateHolistic ==
    /\ hpc = "loop"
    /\ \E rows \in HolAccBatches :
        /\ holistic_stats.total_events + Len(rows) <= MaxHolEvents
        /\ batch' = [columns |-> Columns, rows |-> rows]
        /\ holistic_stats' = UpdateHolisticStats(holistic_stats, batch')
    /\ UNCHANGED <<EXCLUDE_FILTERS, batchVars, detectVars, scanVars, filterVars, monthVars,
                   stats, file, runs, results, hpc, current_skip>>

\* the post-processing after the loop (lines 851-892)
PostProcess ==
    /\ hpc = "loop"
    /\ results' = <<Finalize(holistic_stats)>>
    /\ hpc' = "done"
    /\ UNCHANGED <<EXCLUDE_FILTERS, batchVars, detectVars, scanVars, filterVars, monthVars,
                   stats, batch, file, runs, current_skip, holistic_stats>>

NextHolisticAcc == UpdateHolistic \/ PostProcess

SpecHolisticAcc == InitHolisticAcc /\ [][NextHolisticAcc]_vars

(***************************************************************************)
(* Specification of the post-processing of a holistic state that has        *)
(* counted about 20 addresses                                               *)
(***************************************************************************)
MaxIps == 22           \* distinct addresses of the chunk

Addresses ==
    <<"10.0.0.1", "10.0.0.2", "10.0.0.3", "10.0.0.4", "10.0.0.5", "10.0.0.6",
      "10.0.0.7", "10.0.0.8", "10.0.0.9", "10.0.0.10", "10.0.0.11", "10.0.0.12",
      "10.0.0.13", "10.0.0.14", "10.0.0.15", "10.0.0.16", "10.0.0.17", "10.0.0.18",
      "10.0.0.19", "10.0.0.20", "10.0.0.21", "10.0.0.22", "10.0.0.23", "10.0.0.24">>

\* the i-th row of a chunk of n addresses: its source is the i-th address,
\* its destination the i-th from the end
TopRow(n, i, duration) ==
    [HolAccRow(DateCell("fmt", 10), NumCell(1), duration, Addresses[i]) EXCEPT
        !["Destination IP Address"] = Addresses[n + 1 - i]]

RECURSIVE Ascending(_)
Ascending(S) == IF S = {} THEN <<>> ELSE <<MinOf(S)>> \o Ascending(S \ {MinOf(S)})

\* n rows of n addresses, the first with the given duration, followed by a
\* second row for each address of `again`
TopChunk(n, again, duration) ==
    [columns |-> Columns,
     rows |-> [i \in 1..n |-> TopRow(n, i, IF i = 1 THEN duration ELSE NullCell)]
              \o [j \in 1..Cardinality(again) |-> TopRow(n, Ascending(again)[j], NullCell)]]

\* durations around the minute, the hour and the day, and no duration
DurationCells ==
    {NullCell} \cup
    {NumCell(d) : d \in {0, 1, 59, 60, 61, 3599, 3600, 3661, 86399, 86400, 86401, 90061,
                         172799, 176461}}

\* self._update_holistic_stats(holistic_stats, chunk) of the one chunk of
\* the file
UpdateHolisticOnce ==
    /\ hpc = "loop"
    /\ holistic_stats = NewHolisticStats
    /\ \E n \in (TopCount - 1)..MaxIps, duration \in DurationCells :
         \E again \in SUBSET ({1, 2} \cup TopCount..n) :
            /\ batch' = TopChunk(n, again, duration)
            /\ holistic_stats' = UpdateHolisticStats(holistic_stats, batch')
    /\ UNCHANGED <<EXCLUDE_FILTERS, batchVars, detectVars, scanVars, filterVars, monthVars,
                   stats, file, runs, results, hpc, current_skip>>

NextPost == UpdateHolisticOnce \/ PostProcess

SpecPost == InitHolisticAcc /\ [][NextPost]_vars

(***************************************************************************)
(* Claims about the accumulator (checked under SpecAcc)                     *)
(***************************************************************************)
\* the first row of the batch whose cell in col is the number n
FirstRowWith(c, col, n) ==
    MinOf({i \in 1..Len(c.rows) : c.rows[i][col] = NumCell(n)})

ProvenanceFollows(col, stat_key, details_key) ==
    /\ stats'[stat_key] > stats[stat_key] =>
          stats'[details_key] =
              Some(ExtractAttackDetailsFromRow(
                       batch', FirstRowWith(batch', col, stats'[stat_key])))
    /\ stats'[stat_key] = stats[stat_key] => stats'[details_key] = stats[details_key]

\* C5: when a batch update strictly raises max_bps (or max_pps) because of
\* row R, the stored provenance is exactly row R with all of its columns; a
\* row with an equal value later in the batch or in a later batch does not
\* replace it, only a further strict increase does.
C5_ProvenanceIsRaisingRow ==
    [][/\ ProvenanceFollows("Max bps", "max_bps", "max_bps_details")
       /\ ProvenanceFollows("Max pps", "max_pps", "max_pps_details")]_vars

DetailsMatch(col, stat_key, details_key) ==
    stats[stat_key] > 0 =>
        /\ stats[details_key] # None
        /\ stats[details_key][1].details[col] = NumCell(stats[stat_key])

\* C6: whenever max_pps (max_bps) is above its initial 0, the matching
\* details field is non-null and is the snapshot of a row whose Max pps
\* (Max bps) value equals the stored maximum.
C6_ValueAndProvenanceAgree ==
    /\ DetailsMatch("Max pps", "max_pps", "max_pps_details")
    /\ DetailsMatch("Max bps", "max_bps", "max_bps_details")

CountsGrow(old, new) ==
    \A k \in DOMAIN old : k \in DOMAIN new /\ new[k] >= old[k]

\* C7: after each batch update total_events, the sizes of the unique IP
\* sets, max_pps, max_bps, the sums total_packets and total_mbits and every
\* per-key count are greater than or equal to their value before it.
C7_Monotone ==
    [][/\ stats'.total_events >= stats.total_events
       /\ Cardinality(stats'.unique_source_ips) >= Cardinality(stats.unique_source_ips)
       /\ Cardinality(stats'.unique_dest_ips) >= Cardinality(stats.unique_dest_ips)
       /\ stats'.max_pps >= stats.max_pps
       /\ stats'.max_bps >= stats.max_bps
       /\ stats'.total_packets >= stats.total_packets
       /\ stats'.total_mbits >= stats.total_mbits
       /\ CountsGrow(stats.protocols, stats'.protocols)
       /\ CountsGrow(stats.actions, stats'.actions)
       /\ CountsGrow(stats.devices, stats'.devices)
       /\ CountsGrow(stats.policies, stats'.policies)
       /\ CountsGrow([k \in DOMAIN stats.attack_types |-> stats.attack_types[k].count],
                     [k \in DOMAIN stats'.attack_types |-> stats'.attack_types[k].count])]_vars

\* The accumulator holds the maxima 2 and 2 and two source IPs, and its last
\* batch brought only smaller values and a known IP.
C7_Witness ==
    /\ stats.max_pps = 2
    /\ stats.max_bps = 2
    /\ Cardinality(stats.unique_source_ips) = 2
    /\ Len(batch.rows) > 0
    /\ stats.total_events > Len(batch.rows)
    /\ \A i \in 1..Len(batch.rows) :
          /\ batch.rows[i]["Max pps"] = NumCell(1)
          /\ batch.rows[i]["Max bps"] = NumCell(1)

(***************************************************************************)
(* Claims about the holistic pass (checked under SpecHolistic)              *)
(***************************************************************************)
\* C1: for any file and any two chunk sizes, the holistic pass yields the
\* same total_events, the same unique source and destination IP counts and
\* the same finalized max_pps and max_bps.
C1_ChunkSizeNotObservable ==
    Len(results) = 2 =>
        /\ results[1].total_events = results[2].total_events
        /\ results[1].unique_source_ips = results[2].unique_source_ips
        /\ results[1].unique_dest_ips = results[2].unique_dest_ips
        /\ results[1].max_pps = results[2].max_pps
        /\ results[1].max_bps = results[2].max_bps

\* C8: after the holistic pass over a file of which K data rows survive the
\* exclusion filters, finalized total_events equals K: every surviving data
\* row, the first and the last included, is counted exactly once.
C8_TotalEventsIsSurvivors ==
    \A r \in 1..Len(results) :
        results[r].total_events = Len(ApplyDataFilters(file, EXCLUDE_FILTERS).rows)

(***************************************************************************)
(* Claims about the month validation (checked under SpecMonths)             *)
(***************************************************************************)
\* An event is a row whose start and end are in the detected date format.
IsEvent(row) == row["Start Time"].kind = "fmt" /\ row["End Time"].kind = "fmt"

StartsAndEndsInside(row, month) ==
    IsEvent(row) /\ row["Start Time"].v >= month[1] /\ row["End Time"].v <= month[2]

Overlaps(row, month) ==
    IsEvent(row) /\ row["Start Time"].v <= month[2] /\ row["End Time"].v >= month[1]

HasInsideEvent(month) ==
    \E i \in 1..Len(file.rows) : StartsAndEndsInside(file.rows[i], month)

ValidCandidates ==
    {k \in 1..Len(candidate_months) : HasInsideEvent(candidate_months[k])}

\* C9: the validated months are an order-preserving subsequence of the
\* candidates; with k the first candidate that contains a row with start >=
\* month_start and end <= month_end, they are exactly the candidates k, k+1,
\* ... and every candidate before k is left out.
C9_ValidatedFromFirstValid ==
    mpc = "done" =>
        /\ \E j \in 1..(Len(candidate_months) + 1) :
              complete_months = SubSeq(candidate_months, j, Len(candidate_months))
        /\ ValidCandidates # {} =>
              complete_months =
                  SubSeq(candidate_months, MinOf(ValidCandidates), Len(candidate_months))

\* Three candidate months: the first has no event inside it and is left
\* out, the second has one, the third has none and is accepted after it.
C9_Witness ==
    /\ mpc = "done"
    /\ Len(candidate_months) = 3
    /\ ValidCandidates = {2}
    /\ complete_months = <<candidate_months[2], candidate_months[3]>>

InValidated(month) == \E k \in 1..Len(complete_months) : complete_months[k] = month

\* the data range is one calendar month, from its first to its last instant
RangeIsOneMonth ==
    /\ data_start_date # None
    /\ data_start_date[1] = Datetime(Year(data_start_date[1]), Month(data_start_date[1]), 1)
    /\ data_end_date[1] = NextMonthStart(data_start_date[1]) - 1

OnlySpillover(month) ==
    \A i \in 1..Len(file.rows) :
        Overlaps(file.rows[i], month) =>
            \/ file.rows[i]["Start Time"].v < month[1]
            \/ file.rows[i]["End Time"].v > month[2]

OneFullMonthValidated ==
    (mpc = "done" /\ RangeIsOneMonth
       /\ HasInsideEvent(<<data_start_date[1], data_end_date[1]>>))
        => InValidated(<<data_start_date[1], data_end_date[1]>>)

\* phase 2 ran to its end: the file has the two date columns
ValidationRan ==
    mpc = "done" /\ candidate_months # <<>>
        /\ {"Start Time", "End Time"} \subseteq file.columns

HasOverlappingEvent(month) ==
    \E i \in 1..Len(file.rows) : Overlaps(file.rows[i], month)

InsufficientData ==
    /\ ~monthly_trends.has_trends
    /\ monthly_trends.reason = "Insufficient data for trend analysis"
    /\ DOMAIN monthly_trends.months = {}

C12_CandidatesAreWholeMonths ==
    data_start_date # None =>
        /\ \A k \in 1..Len(candidate_months) :
              LET month_start == candidate_months[k][1]
                  month_end == candidate_months[k][2]
              IN /\ month_start = Datetime(Year(month_start), Month(month_start), 1)
                 /\ data_start_date[1] <= month_start
                 /\ month_end = NextMonthStart(month_start) - 1
                 /\ month_end <= data_end_date[1]
        /\ \A k \in 1..(Len(candidate_months) - 1) :
              /\ candidate_months[k][1] < candidate_months[k + 1][1]
              /\ candidate_months[k + 1][1] = NextMonthStart(candidate_months[k][1])

(***************************************************************************)
(* Claims about the date format resolver (checked under SpecDetect)         *)
(***************************************************************************)
HasKind(kind) == \E i \in 1..Len(sample_dates) : sample_dates[i].kind = kind

Detected == dpc \in {"scan", "scanned", "failed"}

\* C13: for every sample set with a date token that has a component above
\* 12, auto-detection returns the pattern consistent with that evidence:
\* day-first when a first component exceeds 12, month-first when a second
\* does, whatever the scored fallback would choose.  Stated of the runs
\* without a forced format and of the sample sets whose evidence is of one
\* kind.
C13_EvidenceDecides ==
    (Detected /\ FORCE_DATE_FORMAT = None) =>
        /\ (HasKind("dd") /\ ~HasKind("mm")) => date_format = Some(DayFirst)
        /\ (HasKind("mm") /\ ~HasKind("dd")) => date_format = Some(MonthFirst)

\* the kinds of the first k sample values, one by one
RECURSIVE FirstKinds(_, _)
FirstKinds(run_list, k) ==
    IF run_list = <<>> \/ k = 0 THEN <<>>
    ELSE IF Head(run_list).n = 0 THEN FirstKinds(Tail(run_list), k)
    ELSE <<Head(run_list).kind>>
            \o FirstKinds(<<[Head(run_list) EXCEPT !.n = @ - 1]>> \o Tail(run_list), k - 1)

TestedValues == SelectSeq(FirstKinds(sample_dates, 10), LAMBDA kind : kind # "empty")

ParsedValues ==
    SelectSeq(TestedValues, LAMBDA kind : Parses(kind, FORCE_DATE_FORMAT[1]))

\* C14: with a forced format, detect_date_format tests it on the non-empty
\* ones of the first 10 sample values and returns it if and only if
\* strictly more than half of them parse with it; otherwise (exactly half,
\* or nothing to test) the result is that of auto-detection.
C14_ForcedNeedsMajority ==
    (Detected /\ FORCE_DATE_FORMAT # None) =>
        IF 2 * Len(ParsedValues) > Len(TestedValues)
        THEN date_format = FORCE_DATE_FORMAT
        ELSE date_format \in AutoDetect(sample_dates, now)

\* Five of the ten tested values parse month-first, which is forced: the
\* format is refused and auto-detection returns the default, day-first.
C14_Witness ==
    /\ Detected
    /\ FORCE_DATE_FORMAT = Some(MonthFirst)
    /\ Len(TestedValues) = 10
    /\ Len(ParsedValues) = 5
    /\ date_format = Some(DayFirst)

\* a sample value that parses with one of the candidate patterns
ParsesWithCandidate(kind) ==
    \/ \E i \in 1..Len(DATE_FORMATS) : Parses(kind, DATE_FORMATS[i])
    \/ FORCE_DATE_FORMAT # None /\ Parses(kind, FORCE_DATE_FORMAT[1])

\* C15: detect_date_format returns null when no sample date string parses
\* under any candidate pattern, and when it returns null the processing of
\* the file fails instead of continuing with a silently chosen default.
C15_NullWhenNothingParses ==
    /\ (Detected /\ \A i \in 1..Len(sample_dates) :
                        ~ParsesWithCandidate(sample_dates[i].kind))
          => date_format = None
    /\ (dpc \in {"scanned", "failed"} /\ date_format = None) => dpc = "failed"

(***************************************************************************)
(* Claims about the date-range scan                                         *)
(***************************************************************************)
ScanOver == spc \in {"returned", "returned_none", "raised", "monthly", "holistic", "failed"}

\* C16: scan_date_range returns (min_date, max_date) equal to the minimum
\* and maximum of the parsed start times over all rows of the file that
\* survive the exclusion filters and whose start time parses, for every chunk
\* size; in particular min_date <= max_date, whichever batch holds the
\* extreme rows.
C16_ScanFindsExtremes ==
    LET dates == ScannedDates(file, EXCLUDE_FILTERS)
    IN (ScanOver /\ dates # {}) =>
          /\ spc \in {"returned", "monthly", "holistic"}
          /\ data_start_date = Some(MinOf(dates))
          /\ data_end_date = Some(MaxOf(dates))
          /\ data_start_date[1] <= data_end_date[1]

\* C17: if the whole file yields zero parseable start dates after filtering,
\* scan_date_range raises and the error ends the processing of the file: no
\* range with a null bound is returned, and no month enumeration, monthly
\* pass or holistic pass runs for the file.
C17_NoDatesRaises ==
    /\ (ScanOver /\ ScannedDates(file, EXCLUDE_FILTERS) = {}) =>
          /\ spc \in {"raised", "failed"}
          /\ candidate_months = <<>>
          /\ complete_months = <<>>
          /\ monthly_trends = NoTrends
          /\ results = <<>>
    /\ spc \in {"returned", "monthly", "holistic"} =>
          /\ data_start_date # None
          /\ data_end_date # None
    /\ spc # "returned_none"

\* a file with rows, none of which gives a date, has been scanned in full and
\* its processing has ended with the error
C17_Witness ==
    /\ spc = "failed"
    /\ Len(file.rows) = MaxScanRows
    /\ ScannedDates(file, EXCLUDE_FILTERS) = {}
    /\ \E i \in 1..Len(file.rows) : ParseDateFlexible(file.rows[i]["Start Time"]) # None

(***************************************************************************)
(* Claims about row-level faults and attack names in the accumulator        *)
(***************************************************************************)
RowsWithValue(c, col, v) == Cardinality({i \in 1..Len(c.rows) : c.rows[i][col] = v})

CountsFollow(old, new, c, col) ==
    \A v \in PresentValues(c, col) : Get(new, v, 0) = Get(old, v, 0) + RowsWithValue(c, col, v)

WellFormedSum(c, col) ==
    SumSeq([i \in 1..Len(c.rows) |->
               IF c.rows[i][col].kind = "num" THEN c.rows[i][col].v ELSE 0])

\* C18: a malformed numeric field or an unparseable date in a row of a batch
\* costs only that row's contribution to that statistic: the same update
\* call still applies every other row and every other statistic of the batch
\* (sums, hourly histogram, device and policy counts).
C18_RowFaultsSkipOnlyTheRow ==
    [][/\ CountsFollow(stats.devices, stats'.devices, batch', "Device Name")
       /\ CountsFollow(stats.policies, stats'.policies, batch', "Policy Name")
       /\ \A h \in 0..(HoursPerDay - 1) :
             stats'.hourly_distribution[h] =
                 stats.hourly_distribution[h]
                 + Cardinality({i \in 1..Len(batch'.rows) :
                       LET parsed_date == ParseDateFlexible(batch'.rows[i]["Start Time"])
                       IN parsed_date # None /\ Hour(parsed_date[1]) = h})
       /\ stats'.total_packets = stats.total_packets + WellFormedSum(batch', "Total Packets")
       /\ stats'.total_mbits = stats.total_mbits + WellFormedSum(batch', "Total Mbits")]_vars

\* C19: for every row of a batch that has an attack name, the update adds one
\* to the count of that name and stores the row's threat category, 'N/A'
\* when the category is absent; so the counts of attack_types grow by the
\* number of rows of the batch with an attack name.
C19_EveryNamedRowCounted ==
    [][\A attack \in PresentValues(batch', "Attack Name") :
          LET last == MaxOf({i \in 1..Len(batch'.rows) :
                               batch'.rows[i]["Attack Name"] = attack})
              threat_cat == batch'.rows[last]["Threat Category"]
              old == Get(stats.attack_types, attack,
                         [count |-> 0, threat_category |-> "N/A"]).count
          IN /\ attack \in DOMAIN stats'.attack_types
             /\ stats'.attack_types[attack].count
                   = old + RowsWithValue(batch', "Attack Name", attack)
             /\ stats'.attack_types[attack].threat_category
                   = IF IsPresent(threat_cat) THEN threat_cat ELSE "N/A"]_vars

(***************************************************************************)
(* Claim about runs of the pipeline on an unchanged file                    *)
(***************************************************************************)
\* C20: re-running the pipeline on an unchanged file with unchanged
\* configuration never gives a different result: two runs from the same
\* input detect the same date format.
C20_RerunDetectsSameFormat ==
    \A i \in 1..Len(detections), j \in 1..Len(detections) : detections[i] = detections[j]

\* whether processing the file fails fatally: it cannot be read, lacks a
\* required column or has no valid date
FatalFile(f) ==
    \/ ~f.readable
    \/ ~(REQUIRED_COLUMNS \subseteq f.data.columns)
    \/ ScannedDates(f.data, EXCLUDE_FILTERS) = {}

\* C21: the summary of process_all_files holds exactly one result per
\* discovered file, in discovery order; a file that fails fatally has a
\* failed result and the files after it still have theirs; processed_files +
\* failed_files = total_files, and success is true only when failed_files = 0.
C21_OneResultPerFile ==
    summary # None =>
        LET s == summary[1]
        IN /\ Len(s.results) = Len(input_files)
           /\ s.total_files = Len(input_files)
           /\ \A i \in 1..Len(input_files) :
                /\ s.results[i].file_name = input_files[i].name
                /\ FatalFile(input_files[i]) =>
                      /\ ~s.results[i].success
                      /\ s.results[i].error_message # None
           /\ s.processed_files + s.failed_files = s.total_files
           /\ s.failed_files = Cardinality({i \in 1..Len(s.results) : ~s.results[i].success})
           /\ s.success => s.failed_files = 0

\* a batch whose first file failed fatally and whose second file succeeded
C21_Witness ==
    /\ summary # None
    /\ Len(input_files) = 2
    /\ FatalFile(input_files[1])
    /\ ~summary[1].results[1].success
    /\ summary[1].results[2].success

\* the phases of process_single_file that follow the validation of the file
ProcessingPhases == {"scan", "monthly", "holistic", "reports"}

\* C22: a file lacking a required column is rejected as a whole: no date
\* scan, accumulation pass or report generation is performed for it and its
\* result has success = false with an error message; a readable file with
\* valid dates which lacks only optional columns is processed normally.
C22_MissingRequiredColumnRejects ==
    /\ bpc \in ProcessingPhases => REQUIRED_COLUMNS \subseteq input_files[file_i].data.columns
    /\ \A i \in 1..Len(batch_results) :
        LET f == input_files[i]
        IN /\ ~(REQUIRED_COLUMNS \subseteq f.data.columns) =>
                /\ ~batch_results[i].success
                /\ batch_results[i].error_message # None
           /\ (~FatalFile(f) /\ ~f.report_raises) => batch_results[i].success

\* a batch which rejected a file without a required column and processed a
\* file without its optional columns
C22_Witness ==
    \E i, j \in 1..Len(batch_results) :
        /\ ~(REQUIRED_COLUMNS \subseteq input_files[i].data.columns)
        /\ ~batch_results[i].success
        /\ input_files[j].data.columns = REQUIRED_COLUMNS
        /\ batch_results[j].success

\* C23: when a chunked pass has stopped, it has handed every data row of
\* the file to the filter exactly once, in file order (here the date scan,
\* whose eager loop reads as the per-month and the holistic loops do).
C23_EveryRowHandedOnce ==
    (spc = "end" /\ "Start Time" \in file.columns) => handed = file.rows

\* the statistics of the months after the first j months of the loop of
\* process_monthly_trends
TrendsAfter(j) ==
    ProcessMonthlyTrends(file, EXCLUDE_FILTERS, CHUNK_SIZE, SubSeq(complete_months, 1, j))

\* C24: finalized statistics are not touched again: the statistics a month
\* has when its pass returns are those it has after the passes of the later
\* months, and while a file is processed no step after the monthly pass
\* changes the monthly statistics and no step after the holistic pass
\* changes the holistic ones.
C24_FinalizedStatsStay ==
    /\ [](bpc = "holistic" =>
            \A j \in 1..Len(complete_months) :
                LET after == TrendsAfter(j).months
                IN \A k \in DOMAIN after : after[k] = monthly_trends.months[k])
    /\ [][file_i' = file_i =>
            /\ bpc \in {"holistic", "reports", "record"} => monthly_trends' = monthly_trends
            /\ bpc \in {"reports", "record"} => results' = results]_vars

\* both passes have returned, for two months with events of their own
C24_Witness ==
    /\ bpc = "reports"
    /\ results # <<>>
    /\ Len(complete_months) = 2
    /\ \A i \in 1..2 : monthly_trends.months[MonthKey(complete_months[i][1])].total_events > 0

\* the largest of duration_stats, 0 when there is none
Longest(durations) ==
    IF Len(durations) = 0 THEN 0 ELSE MaxOf({durations[i] : i \in 1..Len(durations)})

\* the rows of a batch whose duration is the number d
RowsLasting(c, d) == {i \in 1..Len(c.rows) : c.rows[i]["Duration"] = NumCell(d)}

\* C25: longest_attack_details is null exactly while no positive duration
\* was observed; otherwise its duration is the maximum of duration_stats and
\* its details are all the columns of a row of that duration; an update
\* replaces it only by the first row of the batch whose duration is strictly
\* greater than the one it held.
C25_LongestIsFirstMaximum ==
    /\ [](LET longest == holistic_stats.longest_attack_details
          IN /\ longest = None <=> Longest(holistic_stats.duration_stats) = 0
             /\ longest # None =>
                  /\ longest[1].duration = Longest(holistic_stats.duration_stats)
                  /\ DOMAIN longest[1].details = Columns
                  /\ longest[1].details["Duration"] = NumCell(longest[1].duration))
    /\ [][LET old == holistic_stats.longest_attack_details
              new == holistic_stats'.longest_attack_details
          IN new # old =>
               /\ new # None
               /\ new[1].duration > (IF old = None THEN 0 ELSE old[1].duration)
               /\ RowsLasting(batch', new[1].duration) # {}
               /\ new[1].details = batch'.rows[MinOf(RowsLasting(batch', new[1].duration))]]_vars

\* a row of duration 2 was kept when a later, different row of duration 2
\* came in
C25_Witness ==
    /\ holistic_stats.longest_attack_details # None
    /\ holistic_stats.longest_attack_details[1].duration = 2
    /\ Len(holistic_stats.duration_stats) >= 2
    /\ holistic_stats.duration_stats[Len(holistic_stats.duration_stats)] = 2
    /\ Len(batch.rows) >= 1
    /\ batch.rows[Len(batch.rows)]["Duration"] = NumCell(2)
    /\ batch.rows[Len(batch.rows)] # holistic_stats.longest_attack_details[1].details

ItemsOf(items) == {items[i] : i \in 1..Len(items)}

\* what C26 says of one list before and after the post-processing
TopOf(before, after) ==
    /\ Len(after) <= TopCount
    /\ \A i, j \in 1..Len(after) : i < j => after[i].count >= after[j].count
    /\ \A i, j \in 1..Len(after) : i # j => after[i].key # after[j].key
    /\ ItemsOf(after) \subseteq ItemsOf(before)
    /\ \A kept \in ItemsOf(after), dropped \in ItemsOf(before) \ ItemsOf(after) :
          kept.count >= dropped.count
    /\ Len(before) <= TopCount => ItemsOf(after) = ItemsOf(before)

\* C26: after the post-processing top_source_ips and top_dest_ips hold at
\* most 20 addresses, by count descending, each with the count it had, none
\* with a smaller count than an address dropped, and all of them when there
\* were 20 or fewer.
C26_TopTwentyByCount ==
    hpc = "done" =>
        /\ TopOf(holistic_stats.top_source_ips, results[1].top_source_ips)
        /\ TopOf(holistic_stats.top_dest_ips, results[1].top_dest_ips)

\* more than 20 addresses were counted, the last of them twice: it is kept,
\* first of the list, and an address counted once is dropped
C26_Witness ==
    /\ hpc = "done"
    /\ Len(holistic_stats.top_source_ips) > TopCount
    /\ holistic_stats.top_source_ips[Len(holistic_stats.top_source_ips)].count = 2
    /\ results[1].top_source_ips[1].count = 2
    /\ results[1].top_source_ips[TopCount].count = 1
    /\ ItemsOf(holistic_stats.top_source_ips) # ItemsOf(results[1].top_source_ips)

\* the days a formatted duration prints, none standing for 0
DaysOf(formatted) == IF formatted.days = None THEN 0 ELSE formatted.days[1]

\* C27: the post-processing formats the longest duration D as days, hours,
\* minutes and seconds with hours < 24, minutes < 60, seconds < 60 and
\* days*86400 + hours*3600 + minutes*60 + seconds = D; when no duration was
\* observed the string is the zero duration and longest_attack_details is
\* null.
C27_DurationSplitsExactly ==
    hpc = "done" =>
        LET D == Longest(holistic_stats.duration_stats)
            formatted == results[1].longest_attack_duration
        IN /\ formatted.hours \in 0..23
           /\ formatted.minutes \in 0..59
           /\ formatted.seconds \in 0..59
           /\ DaysOf(formatted) >= 0
           /\ DaysOf(formatted) * 86400 + formatted.hours * 3600
                + formatted.minutes * 60 + formatted.seconds = D
           /\ D > 0 => formatted.days # None
           /\ holistic_stats.duration_stats = <<>> =>
                /\ formatted = ZeroDuration
                /\ results[1].longest_attack_details = None

\* a duration of more than a day, with hours, minutes and seconds of its own
C27_Witness ==
    /\ hpc = "done"
    /\ Longest(holistic_stats.duration_stats) > 86400
    /\ results[1].longest_attack_duration.days # None
    /\ results[1].longest_attack_duration.hours > 0
    /\ results[1].longest_attack_duration.minutes > 0
    /\ results[1].longest_attack_duration.seconds > 0

\* the sum of the counts of a dictionary or of a list of counts
RECURSIVE SumOfCounts(_)
SumOfCounts(d) ==
    IF DOMAIN d = {} THEN 0
    ELSE LET k == CHOOSE x \in DOMAIN d : TRUE
         IN d[k] + SumOfCounts([x \in DOMAIN d \ {k} |-> d[x]])

\* C28: after any sequence of updates of the holistic accumulator the
\* hourly histogram has its 24 slots and its total is the total of
\* daily_distribution, which is at most total_events.
C28_HourlyTotalIsDailyTotal ==
    /\ DOMAIN holistic_stats.hourly_distribution = 0..23
    /\ SumOfCounts(holistic_stats.hourly_distribution)
         = SumOfCounts(holistic_stats.daily_distribution)
    /\ SumOfCounts(holistic_stats.daily_distribution) <= holistic_stats.total_events

\* the rows of the file that survive the exclusion filters and whose start
\* time parses to a time of the month
RowsOfMonth(month_start, month_end) ==
    LET kept == ApplyDataFilters(file, EXCLUDE_FILTERS).rows
    IN {i \in 1..Len(kept) :
          LET t == ParseDateFlexible(kept[i]["Start Time"])
          IN t # None /\ month_start <= t[1] /\ t[1] <= month_end}

\* C29: the accumulator of a month has ingested exactly the surviving rows
\* whose start time lies in the month, no row lies in two months, and the
\* months together count no more events than the holistic pass of the file.
C29_MonthIngestsItsRows ==
    mpc = "trends" =>
         /\ \A i \in 1..Len(complete_months) :
               monthly_trends.months[MonthKey(complete_months[i][1])].total_events
                 = Cardinality(RowsOfMonth(complete_months[i][1], complete_months[i][2]))
         /\ \A i, j \in 1..Len(complete_months) :
               i # j => RowsOfMonth(complete_months[i][1], complete_months[i][2])
                          \cap RowsOfMonth(complete_months[j][1], complete_months[j][2]) = {}
         /\ SumSeq([i \in 1..Len(complete_months) |->
                      monthly_trends.months[MonthKey(complete_months[i][1])].total_events])
              <= HolisticLoop(NewHolisticStats, file, EXCLUDE_FILTERS, CHUNK_SIZE, 1).total_events

\* C30: after scan_date_range returns, total_rows is the number of data
\* rows of the file that survive the exclusion filters, each counted once,
\* also when the eager loop took over from a lazy scan that failed.
C30_TotalRowsCountsSurvivors ==
    spc = "returned" => total_rows = Len(ApplyDataFilters(file, EXCLUDE_FILTERS).rows)

====
